---- MODULE Spec2Model ----
(***************************************************************************)
(* Span tracking for streamed LLM chunks: ModelSpanTracker and the         *)
(* pass-through transform createChunkTracingTransform of                   *)
(* packages/core/src/ai-tracing/chunk-tracing.ts.                          *)
(***************************************************************************)
EXTENDS Integers, Sequences, FiniteSets, TLC

VARIABLES
  hasTracker,           \* createChunkTracingTransform(tracker): tracker !== undefined
  modelSpan,            \* ModelSpanTracker fields, chunk-tracing.ts:24-32
  currentStepSpan,
  currentChunkSpan,
  completedChunkSpans,
  accumulator,
  stepIndex,
  chunkSequence,
  pendingTokenUsage,
  isEnabled,
  spans,                \* span backend: the spans it holds, a handle is an index
  calls,                \* span backend: every call received, in order
  input,                \* chunks handed to transform(chunk, controller)
  output,               \* chunks enqueued on the controller
  errored,              \* an exception left transform(): the stream is errored
  invoked,              \* the tracker methods a direct caller invoked, in order
  threw,                \* whether the last of them threw
  events,               \* transform(): its backend calls and enqueues, as they happened
  peer                  \* a second generation: its own tracker, transform and stream

vars == <<hasTracker, modelSpan, currentStepSpan, currentChunkSpan,
          completedChunkSpans, accumulator, stepIndex, chunkSequence,
          pendingTokenUsage, isEnabled, spans, calls, input, output, errored,
          invoked, threw, events, peer>>

(***************************************************************************)
(* Bounds of the model.                                                    *)
(***************************************************************************)
\* chunks pushed through the transform when it draws from every tag
MaxChunks == 2
\* chunks pushed through the transform when it draws from one family of tags
MaxLen == 4
\* tracker methods invoked by a direct caller
MaxOps == 3
\* chunks and direct calls together, when both reach the tracker
MaxMixed == 3
\* chunks pushed through the transform when the order of its effects is watched
MaxForward == 3
\* chunks pushed through the transforms of two generations, together
MaxPair == 4

\* chunks of a stream whose backend may throw
MaxThrow == 3

\* chunks of a stream of whole steps and blocks
MaxStream == 6

(***************************************************************************)
(* JavaScript values.  Every value is a record of the same shape, so that  *)
(* any two of them can be compared: kind says which fields are meaningful. *)
(* A string is its sequence of characters.                                 *)
(***************************************************************************)
\* K applied to the value of e, with e evaluated once
Bind(e, K(_)) == CHOOSE y \in {K(x) : x \in {e}} : TRUE

JVal(k, n, s, ks, vs) == [kind |-> k, num |-> n, str |-> s, keys |-> ks, vals |-> vs]

JUndefined == JVal("undefined", 0, <<>>, <<>>, <<>>)

JNull == JVal("null", 0, <<>>, <<>>, <<>>)

JNum(n) == JVal("number", n, <<>>, <<>>, <<>>)

JStr(cs) == JVal("string", 0, cs, <<>>, <<>>)

\* a string literal of the source, kept as one token: it is never split or parsed
JLit(s) == JStr(<<s>>)

JArr(vs) == JVal("array", 0, <<>>, <<>>, vs)

\* an object: its own keys in insertion order, and their values
JObj(ks, vs) == JVal("object", 0, <<>>, ks, vs)

EmptyObject == JObj(<<>>, <<>>)

HasKey(o, key) == \E i \in 1..Len(o.keys) : o.keys[i] = key

\* o[key], o.key: undefined for a key that is absent
Get(o, key) ==
  IF HasKey(o, key)
    THEN o.vals[CHOOSE i \in 1..Len(o.keys) : o.keys[i] = key]
    ELSE JUndefined

\* o[key] = v
Put(o, key, v) ==
  IF HasKey(o, key)
    THEN [o EXCEPT !.vals[CHOOSE i \in 1..Len(o.keys) : o.keys[i] = key] = v]
    ELSE [o EXCEPT !.keys = Append(@, key), !.vals = Append(@, v)]

RECURSIVE AssignFrom(_, _, _)
AssignFrom(o, src, i) ==
  IF i > Len(src.keys) THEN o
  ELSE Bind(Put(o, src.keys[i], src.vals[i]), LAMBDA o1 : AssignFrom(o1, src, i + 1))

\* Object.assign(o, src)
ObjectAssign(o, src) == AssignFrom(o, src, 1)

\* ToBoolean(v)
Truthy(v) ==
  CASE v.kind \in {"undefined", "null"} -> FALSE
    [] v.kind = "string" -> v.str # <<>>
    [] v.kind = "number" -> v.num # 0
    [] OTHER -> TRUE

\* a + b for two strings
JsPlus(a, b) == JStr(a.str \o b.str)

(***************************************************************************)
(* JSON.parse, on texts over the characters 1 [ ] , { }.  Over these the   *)
(* JSON grammar has the numbers 1, 11, ..., the arrays and the empty       *)
(* object (a member needs a quoted key).  A parse gives ok, the value and  *)
(* the position after it.                                                  *)
(***************************************************************************)
JsonChars == {"1", "[", "]", ",", "{", "}"}

ParseFail == [ok |-> FALSE, val |-> JUndefined, next |-> 0]

RECURSIVE ParseNumber(_, _, _)
ParseNumber(cs, i, n) ==
  IF i <= Len(cs) /\ cs[i] = "1"
    THEN ParseNumber(cs, i + 1, 10 * n + 1)
    ELSE [ok |-> TRUE, val |-> JNum(n), next |-> i]

RECURSIVE ParseValue(_, _)
RECURSIVE ParseElements(_, _, _)
ParseValue(cs, i) ==
  IF i > Len(cs) THEN ParseFail
  ELSE CASE cs[i] = "1" -> ParseNumber(cs, i, 0)
         [] cs[i] = "{" ->
              IF i + 1 <= Len(cs) /\ cs[i + 1] = "}"
                THEN [ok |-> TRUE, val |-> EmptyObject, next |-> i + 2]
                ELSE ParseFail
         [] cs[i] = "[" ->
              IF i + 1 <= Len(cs) /\ cs[i + 1] = "]"
                THEN [ok |-> TRUE, val |-> JArr(<<>>), next |-> i + 2]
                ELSE ParseElements(cs, i + 1, <<>>)
         [] OTHER -> ParseFail

\* the elements of an array after its "[" or after a ","
ParseElements(cs, i, acc) ==
  Bind(ParseValue(cs, i), LAMBDA v :
    IF ~v.ok \/ v.next > Len(cs) THEN ParseFail
    ELSE CASE cs[v.next] = "," ->
                Bind(Append(acc, v.val), LAMBDA acc1 : ParseElements(cs, v.next + 1, acc1))
           [] cs[v.next] = "]" ->
                [ok |-> TRUE, val |-> JArr(Append(acc, v.val)), next |-> v.next + 1]
           [] OTHER -> ParseFail)

\* the whole text is one JSON value
JsonValid(cs) == Bind(ParseValue(cs, 1), LAMBDA p : p.ok /\ p.next = Len(cs) + 1)

\* JSON.parse(text): the value, or a SyntaxError thrown
JsonParse(cs) ==
  IF JsonValid(cs) THEN [threw |-> FALSE, val |-> ParseValue(cs, 1).val]
  ELSE [threw |-> TRUE, val |-> JUndefined]

(***************************************************************************)
(* The span backend (AISpan of ./types): createChildSpan, createEventSpan, *)
(* update and end.  How a call comes back is the backend's choice: with a  *)
(* handle, with undefined (tracing suppressed), or by throwing.            *)
(***************************************************************************)
\* an optional span field that holds no handle (undefined)
NoSpan == 0

\* the result recorded for a backend call that threw
Thrown == -1

Responses == {"handle", "undefined", "throw"}

\* the answers of a backend that does not throw
Answers == {"handle", "undefined"}

Span(type, name, parent, attrs, ended, out, event) ==
  [type |-> type, name |-> name, parent |-> parent, attributes |-> attrs,
   ended |-> ended, output |-> out, isEvent |-> event]

Call(op, on, type, name, attrs, out, result, by) ==
  [op |-> op, on |-> on, type |-> type, name |-> name, attributes |-> attrs,
   output |-> out, result |-> result, by |-> by]

\* parent.createChildSpan({name, type, attributes}): the new span is open
BackendCreateChildSpan(w, parent, type, name, attrs, r) ==
  LET id == Len(w.spans) + 1
      res == CASE r = "throw" -> Thrown [] r = "undefined" -> NoSpan [] OTHER -> id
      logged == [w EXCEPT !.calls = Append(@, Call("createChildSpan", parent, type,
                                     name, attrs, JUndefined, res, w.now))]
  IN CASE r = "throw" -> [logged EXCEPT !.threw = TRUE, !.ret = NoSpan]
       [] r = "undefined" -> [logged EXCEPT !.ret = NoSpan]
       [] OTHER -> [logged EXCEPT !.ret = id,
                      !.spans = Append(@, Span(type, name, parent, attrs, 0,
                                               JUndefined, FALSE))]

\* parent.createEventSpan({name, type, attributes, output}): created already ended
BackendCreateEventSpan(w, parent, type, name, attrs, out, r) ==
  LET id == Len(w.spans) + 1
      res == CASE r = "throw" -> Thrown [] r = "undefined" -> NoSpan [] OTHER -> id
      logged == [w EXCEPT !.calls = Append(@, Call("createEventSpan", parent, type,
                                     name, attrs, out, res, w.now))]
  IN CASE r = "throw" -> [logged EXCEPT !.threw = TRUE, !.ret = NoSpan]
       [] r = "undefined" -> [logged EXCEPT !.ret = NoSpan]
       [] OTHER -> [logged EXCEPT !.ret = id,
                      !.spans = Append(@, Span(type, name, parent, attrs, 1, out, TRUE))]

\* span.update({attributes}): merges the attributes into the span's
BackendUpdate(w, h, attrs, r) ==
  LET res == IF r = "throw" THEN Thrown ELSE NoSpan
      logged == [w EXCEPT !.calls = Append(@, Call("update", h, w.spans[h].type,
                                     w.spans[h].name, attrs, JUndefined, res, w.now))]
  IN IF r = "throw" THEN [logged EXCEPT !.threw = TRUE]
     ELSE [logged EXCEPT !.spans[h].attributes = ObjectAssign(@, attrs)]

\* span.end({output}): closes the span
BackendEnd(w, h, out, r) ==
  LET res == IF r = "throw" THEN Thrown ELSE NoSpan
      logged == [w EXCEPT !.calls = Append(@, Call("end", h, w.spans[h].type,
                                     w.spans[h].name, EmptyObject, out, res, w.now))]
  IN IF r = "throw" THEN [logged EXCEPT !.threw = TRUE]
     ELSE [logged EXCEPT !.spans[h].ended = @ + 1, !.spans[h].output = out]

(***************************************************************************)
(* ModelSpanTracker.  A method is an operator on the record w of the       *)
(* tracker's fields and the backend's state; r, r1, r2 are the backend's   *)
(* answers to the calls the method makes, in order.  A backend call that   *)
(* throws ends the method there: w.threw, and the assignments after the    *)
(* call are not made.                                                      *)
(***************************************************************************)
\* `${n}` for a small number
NumStr(n) == <<"0", "1", "2", "3", "4", "5", "6", "7", "8", "9">>[n + 1]

\* `step ${stepIndex}`
StepName(n) == JStr(<<"step ", NumStr(n)>>)

\* `chunk: ${chunkType}`
ChunkName(chunkType) == JStr(<<"chunk: ", chunkType>>)

\* attributes: { chunkType, sequenceNumber: this.chunkSequence }
ChunkAttributes(w, chunkType) ==
  JObj(<<"chunkType", "sequenceNumber">>, <<JLit(chunkType), JNum(w.chunkSequence)>>)

\* a startStep that lets the chunk sequence counter run on
startStepKeepsCounter(w, r) ==
  IF ~w.isEnabled THEN w
  ELSE Bind(IF w.modelSpan = NoSpan THEN [w EXCEPT !.ret = NoSpan]
            ELSE BackendCreateChildSpan(w, w.modelSpan, "LLM_STEP",
                   StepName(w.stepIndex),
                   JObj(<<"stepIndex">>, <<JNum(w.stepIndex)>>), r),
            LAMBDA c :
              IF c.threw THEN c
              ELSE [c EXCEPT !.currentStepSpan = c.ret,
                             !.pendingTokenUsage = JUndefined])

\* a startStep that keeps the usage stored before it
startStepKeepsUsage(w, r) ==
  IF ~w.isEnabled THEN w
  ELSE Bind(IF w.modelSpan = NoSpan THEN [w EXCEPT !.ret = NoSpan]
            ELSE BackendCreateChildSpan(w, w.modelSpan, "LLM_STEP",
                   StepName(w.stepIndex),
                   JObj(<<"stepIndex">>, <<JNum(w.stepIndex)>>), r),
            LAMBDA c :
              IF c.threw THEN c
              ELSE [c EXCEPT !.currentStepSpan = c.ret,
                             !.chunkSequence = 0])

\* a startStep that first ends the step still open
startStepClosesOpenStep(w, r) ==
  IF ~w.isEnabled THEN w
  ELSE Bind(IF w.currentStepSpan = NoSpan THEN w
            ELSE [BackendEnd(w, w.currentStepSpan, JUndefined, "handle")
                    EXCEPT !.stepIndex = @ + 1],
            LAMBDA p :
              Bind(IF p.modelSpan = NoSpan THEN [p EXCEPT !.ret = NoSpan]
                   ELSE BackendCreateChildSpan(p, p.modelSpan, "LLM_STEP",
                          StepName(p.stepIndex),
                          JObj(<<"stepIndex">>, <<JNum(p.stepIndex)>>), r),
                   LAMBDA c :
                     IF c.threw THEN c
                     ELSE [c EXCEPT !.currentStepSpan = c.ret,
                                    !.chunkSequence = 0,
                                    !.pendingTokenUsage = JUndefined]))

startStep(w, r) ==
  IF ~w.isEnabled THEN w
  ELSE Bind(IF w.modelSpan = NoSpan THEN [w EXCEPT !.ret = NoSpan]
            ELSE BackendCreateChildSpan(w, w.modelSpan, "LLM_STEP",
                   StepName(w.stepIndex),
                   JObj(<<"stepIndex">>, <<JNum(w.stepIndex)>>), r),
            LAMBDA c :
              IF c.threw THEN c
              ELSE [c EXCEPT !.currentStepSpan = c.ret,
                             !.chunkSequence = 0,
                             !.pendingTokenUsage = JUndefined])

\* an endStep that ends the step and leaves the step index as it is
endStepTailKeepsIndex(u, r) ==
  IF u.threw THEN u
  ELSE Bind(BackendEnd(u, u.currentStepSpan, JUndefined, r),
            LAMBDA e :
              IF e.threw THEN e
              ELSE [e EXCEPT !.currentStepSpan = NoSpan])

\* this.currentStepSpan.end({}); this.currentStepSpan = undefined; this.stepIndex++
endStepTail(u, r) ==
  IF u.threw THEN u
  ELSE Bind(BackendEnd(u, u.currentStepSpan, JUndefined, r),
            LAMBDA e :
              IF e.threw THEN e
              ELSE [e EXCEPT !.currentStepSpan = NoSpan, !.stepIndex = @ + 1])

\* an endStep that uses the step span without looking whether there is one
endStepNoStepGuard(w, finishReason, r1, r2) ==
  IF ~w.isEnabled THEN w
  ELSE IF w.currentStepSpan = NoSpan THEN [w EXCEPT !.threw = TRUE]
  ELSE Bind(IF Truthy(w.pendingTokenUsage)
              THEN BackendUpdate(w, w.currentStepSpan,
                     Put(w.pendingTokenUsage, "finishReason", finishReason), r1)
            ELSE IF Truthy(finishReason)
              THEN BackendUpdate(w, w.currentStepSpan,
                     JObj(<<"finishReason">>, <<finishReason>>), r1)
            ELSE w,
            LAMBDA u : endStepTail(u, r2))

\* an endStep that forgets the pending usage
endStepDropsUsage(w, finishReason, r1, r2) ==
  IF ~w.isEnabled \/ w.currentStepSpan = NoSpan THEN w
  ELSE Bind(IF Truthy(finishReason)
              THEN BackendUpdate(w, w.currentStepSpan,
                     JObj(<<"finishReason">>, <<finishReason>>), r1)
            ELSE w,
            LAMBDA u : endStepTail(u, r2))

endStep(w, finishReason, r1, r2) ==
  IF ~w.isEnabled \/ w.currentStepSpan = NoSpan THEN w
  ELSE Bind(IF Truthy(w.pendingTokenUsage)
              THEN BackendUpdate(w, w.currentStepSpan,
                     Put(w.pendingTokenUsage, "finishReason", finishReason), r1)
            ELSE IF Truthy(finishReason)
              THEN BackendUpdate(w, w.currentStepSpan,
                     JObj(<<"finishReason">>, <<finishReason>>), r1)
            ELSE w,
            LAMBDA u : endStepTail(u, r2))

\* a setTokenUsage that keeps the usage it already holds
setTokenUsageKeepsFirst(w, usage) ==
  IF ~w.isEnabled \/ Truthy(w.pendingTokenUsage) THEN w
  ELSE [w EXCEPT !.pendingTokenUsage = usage]

setTokenUsage(w, usage) ==
  IF ~w.isEnabled THEN w ELSE [w EXCEPT !.pendingTokenUsage = usage]

\* a startSpan that first completes the chunk span still open
startSpanEndsPrevious(s, chunkType, initialData, r) ==
  IF s.threw THEN s
  ELSE Bind(IF s.currentChunkSpan = NoSpan THEN s
            ELSE [BackendEnd(s, s.currentChunkSpan, s.accumulator, "handle")
                    EXCEPT !.completedChunkSpans = Append(@, s.currentChunkSpan),
                           !.chunkSequence = @ + 1],
            LAMBDA p :
              Bind(IF p.currentStepSpan = NoSpan THEN [p EXCEPT !.ret = NoSpan]
                   ELSE BackendCreateChildSpan(p, p.currentStepSpan, "LLM_CHUNK",
                          ChunkName(chunkType), ChunkAttributes(p, chunkType), r),
                   LAMBDA c :
                     IF c.threw THEN c
                     ELSE [c EXCEPT !.currentChunkSpan = c.ret,
                                    !.accumulator = IF Truthy(initialData) THEN initialData
                                                    ELSE EmptyObject]))

\* a startSpan that keeps the accumulator when it is given no initial data
startSpanKeepsAccumulator(s, chunkType, initialData, r) ==
  IF s.threw THEN s
  ELSE Bind(IF s.currentStepSpan = NoSpan THEN [s EXCEPT !.ret = NoSpan]
            ELSE BackendCreateChildSpan(s, s.currentStepSpan, "LLM_CHUNK",
                   ChunkName(chunkType), ChunkAttributes(s, chunkType), r),
            LAMBDA c :
              IF c.threw THEN c
              ELSE [c EXCEPT !.currentChunkSpan = c.ret,
                             !.accumulator = IF Truthy(initialData) THEN initialData
                                             ELSE @])

\* this.currentChunkSpan = this.currentStepSpan?.createChildSpan(...);
\* this.accumulator = initialData || {}
startSpanTail(s, chunkType, initialData, r) ==
  IF s.threw THEN s
  ELSE Bind(IF s.currentStepSpan = NoSpan THEN [s EXCEPT !.ret = NoSpan]
            ELSE BackendCreateChildSpan(s, s.currentStepSpan, "LLM_CHUNK",
                   ChunkName(chunkType), ChunkAttributes(s, chunkType), r),
            LAMBDA c :
              IF c.threw THEN c
              ELSE [c EXCEPT !.currentChunkSpan = c.ret,
                             !.accumulator = IF Truthy(initialData) THEN initialData
                                             ELSE EmptyObject])

\* a startSpan that does not create the missing step
startSpanNoAutoStep(w, chunkType, initialData, r1, r2) ==
  IF ~w.isEnabled THEN w ELSE startSpanTail(w, chunkType, initialData, r2)

startSpan(w, chunkType, initialData, r1, r2) ==
  IF ~w.isEnabled THEN w
  ELSE Bind(IF w.currentStepSpan = NoSpan THEN startStep(w, r1) ELSE w,
            LAMBDA s : startSpanTail(s, chunkType, initialData, r2))

updateAccumulator(w, updates) ==
  IF ~w.isEnabled THEN w
  ELSE [w EXCEPT !.accumulator = ObjectAssign(@, updates)]

\* an append that is not guarded by isEnabled
appendUnguarded(w, field, text) ==
  IF Get(w.accumulator, field) = JUndefined
    THEN [w EXCEPT !.accumulator = Put(@, field, text)]
    ELSE [w EXCEPT !.accumulator = Put(@, field, JsPlus(Get(@, field), text))]

\* an append that assigns the text instead of concatenating it
appendOverwrites(w, field, text) ==
  IF ~w.isEnabled THEN w ELSE [w EXCEPT !.accumulator = Put(@, field, text)]

appendToAccumulator(w, field, text) ==
  IF ~w.isEnabled THEN w
  ELSE IF Get(w.accumulator, field) = JUndefined
    THEN [w EXCEPT !.accumulator = Put(@, field, text)]
    ELSE [w EXCEPT !.accumulator = Put(@, field, JsPlus(Get(@, field), text))]

\* an end of the chunk span that keeps the reference to it
endCurrentSpanKeepsReference(e) ==
  IF e.threw THEN e
  ELSE [e EXCEPT !.completedChunkSpans = Append(@, e.currentChunkSpan),
                 !.accumulator = EmptyObject,
                 !.chunkSequence = @ + 1]

\* this.completedChunkSpans.push(this.currentChunkSpan); this.currentChunkSpan =
\* undefined; this.accumulator = {}; this.chunkSequence++
endCurrentSpanTail(e) ==
  IF e.threw THEN e
  ELSE [e EXCEPT !.completedChunkSpans = Append(@, e.currentChunkSpan),
                 !.currentChunkSpan = NoSpan,
                 !.accumulator = EmptyObject,
                 !.chunkSequence = @ + 1]

\* an endCurrentSpan that catches what end() throws
endCurrentSpanCatches(w, out, r) ==
  IF ~w.isEnabled \/ w.currentChunkSpan = NoSpan THEN w
  ELSE Bind(BackendEnd(w, w.currentChunkSpan,
                       IF out # JUndefined THEN out ELSE w.accumulator, r),
            LAMBDA e : IF e.threw THEN [e EXCEPT !.threw = FALSE]
                       ELSE endCurrentSpanTail(e))

\* an endCurrentSpan guarded by isEnabled alone, ending the span with ?.
endCurrentSpanUnguarded(w, out, r) ==
  IF ~w.isEnabled THEN w
  ELSE Bind(IF w.currentChunkSpan = NoSpan THEN w
            ELSE BackendEnd(w, w.currentChunkSpan,
                            IF out # JUndefined THEN out ELSE w.accumulator, r),
            LAMBDA e : endCurrentSpanTail(e))

endCurrentSpan(w, out, r) ==
  IF ~w.isEnabled \/ w.currentChunkSpan = NoSpan THEN w
  ELSE Bind(BackendEnd(w, w.currentChunkSpan,
                       IF out # JUndefined THEN out ELSE w.accumulator, r),
            LAMBDA e : endCurrentSpanTail(e))

\* a createEventSpan that records the event span twice
createEventSpanPushesTwice(s, chunkType, out, r) ==
  IF s.threw THEN s
  ELSE Bind(IF s.currentStepSpan = NoSpan THEN [s EXCEPT !.ret = NoSpan]
            ELSE BackendCreateEventSpan(s, s.currentStepSpan, "LLM_CHUNK",
                   ChunkName(chunkType), ChunkAttributes(s, chunkType), out, r),
            LAMBDA c :
              IF c.threw THEN c
              ELSE IF c.ret # NoSpan
                THEN [c EXCEPT !.completedChunkSpans = Append(Append(@, c.ret), c.ret),
                               !.chunkSequence = @ + 1]
                ELSE c)

\* a createEventSpan that opens a child span and ends it with a second call
createEventSpanOpensThenEnds(s, chunkType, out, r) ==
  IF s.threw THEN s
  ELSE Bind(IF s.currentStepSpan = NoSpan THEN [s EXCEPT !.ret = NoSpan]
            ELSE BackendCreateChildSpan(s, s.currentStepSpan, "LLM_CHUNK",
                   ChunkName(chunkType), ChunkAttributes(s, chunkType), r),
            LAMBDA c :
              IF c.threw \/ c.ret = NoSpan THEN c
              ELSE Bind(BackendEnd(c, c.ret, out, r),
                        LAMBDA e :
                          IF e.threw THEN e
                          ELSE [e EXCEPT !.completedChunkSpans = Append(@, c.ret),
                                         !.chunkSequence = @ + 1]))

\* a createEventSpan that takes the place of the span in progress
createEventSpanClosesOpenSpan(s, chunkType, out, r) ==
  IF s.threw THEN s
  ELSE Bind(IF s.currentStepSpan = NoSpan THEN [s EXCEPT !.ret = NoSpan]
            ELSE BackendCreateEventSpan(s, s.currentStepSpan, "LLM_CHUNK",
                   ChunkName(chunkType), ChunkAttributes(s, chunkType), out, r),
            LAMBDA c :
              IF c.threw THEN c
              ELSE IF c.ret # NoSpan
                THEN [c EXCEPT !.completedChunkSpans = Append(@, c.ret),
                               !.chunkSequence = @ + 1,
                               !.currentChunkSpan = NoSpan,
                               !.accumulator = EmptyObject]
                ELSE c)

\* a createEventSpan that pushes whatever the backend returned
createEventSpanPushesAbsent(s, chunkType, out, r) ==
  IF s.threw THEN s
  ELSE Bind(IF s.currentStepSpan = NoSpan THEN [s EXCEPT !.ret = NoSpan]
            ELSE BackendCreateEventSpan(s, s.currentStepSpan, "LLM_CHUNK",
                   ChunkName(chunkType), ChunkAttributes(s, chunkType), out, r),
            LAMBDA c :
              IF c.threw THEN c
              ELSE [c EXCEPT !.completedChunkSpans = Append(@, c.ret),
                             !.chunkSequence = @ + 1])

\* const span = this.currentStepSpan?.createEventSpan(...);
\* if (span) { this.completedChunkSpans.push(span); this.chunkSequence++ }
createEventSpanTail(s, chunkType, out, r) ==
  IF s.threw THEN s
  ELSE Bind(IF s.currentStepSpan = NoSpan THEN [s EXCEPT !.ret = NoSpan]
            ELSE BackendCreateEventSpan(s, s.currentStepSpan, "LLM_CHUNK",
                   ChunkName(chunkType), ChunkAttributes(s, chunkType), out, r),
            LAMBDA c :
              IF c.threw THEN c
              ELSE IF c.ret # NoSpan
                THEN [c EXCEPT !.completedChunkSpans = Append(@, c.ret),
                               !.chunkSequence = @ + 1]
                ELSE c)

createEventSpan(w, chunkType, out, r1, r2) ==
  IF ~w.isEnabled THEN w
  ELSE Bind(IF w.currentStepSpan = NoSpan THEN startStep(w, r1) ELSE w,
            LAMBDA s : createEventSpanTail(s, chunkType, out, r2))

\* a hasActiveSpan that looks at the completed spans instead
hasActiveSpanWrongField(w) == w.completedChunkSpans # <<>>

hasActiveSpan(w) == w.currentChunkSpan # NoSpan

getAccumulator(w) == w.accumulator

getCompletedSpans(w) == w.completedChunkSpans

(***************************************************************************)
(* Chunks: a discriminant tag, a payload and, for object chunks, the       *)
(* object.                                                                 *)
(***************************************************************************)
Chunk(type, payload, object) == [type |-> type, payload |-> payload, object |-> object]

\* texts carried by text-delta and reasoning-delta
Texts == {<<>>, <<"a">>, <<"b">>}

\* texts carried by tool-call-delta
ArgsTexts == {<<>>, <<"[", "1">>, <<"]">>, <<"{", "}">>}

ToolPayload == JObj(<<"toolName", "toolCallId">>, <<JLit("calc"), JLit("1")>>)

FullUsage ==
  JObj(<<"inputTokens", "outputTokens", "totalTokens">>, <<JNum(10), JNum(5), JNum(15)>>)

PartialUsage == JObj(<<"totalTokens">>, <<JNum(42)>>)

\* usage carried by finish: complete, partial, or none
Usages == {FullUsage, PartialUsage, JUndefined}

\* values carried by object and object-result
Objects == {JObj(<<"x">>, <<JNum(1)>>), JArr(<<JNum(1)>>)}

TextStart == Chunk("text-start", EmptyObject, JUndefined)

TextDelta(t) == Chunk("text-delta", JObj(<<"text">>, <<JStr(t)>>), JUndefined)

TextEnd == Chunk("text-end", EmptyObject, JUndefined)

ReasoningStart == Chunk("reasoning-start", EmptyObject, JUndefined)

ReasoningDelta(t) == Chunk("reasoning-delta", JObj(<<"text">>, <<JStr(t)>>), JUndefined)

ReasoningEnd == Chunk("reasoning-end", EmptyObject, JUndefined)

ToolStart == Chunk("tool-call-input-streaming-start", ToolPayload, JUndefined)

ToolDelta(t) == Chunk("tool-call-delta", Put(ToolPayload, "argsTextDelta", JStr(t)), JUndefined)

ToolEnd ==
  Chunk("tool-call-input-streaming-end", JObj(<<"toolCallId">>, <<JLit("1")>>), JUndefined)

ToolCall == Chunk("tool-call", Put(ToolPayload, "args", JObj(<<"a">>, <<JNum(1)>>)), JUndefined)

ObjectPart(o) == Chunk("object", EmptyObject, o)

ObjectResult(o) == Chunk("object-result", EmptyObject, o)

StepStart == Chunk("step-start", EmptyObject, JUndefined)

StepFinish == Chunk("step-finish", EmptyObject, JUndefined)

Finish(u) ==
  Chunk("finish", IF u = JUndefined THEN EmptyObject ELSE JObj(<<"usage">>, <<u>>), JUndefined)

Source ==
  Chunk("source", JObj(<<"id", "sourceType", "title", "url">>,
                       <<JLit("s1"), JLit("url"), JLit("t"), JLit("u")>>), JUndefined)

\* tags whose whole payload becomes the event span's output
WholePayloadTags ==
  {"response-metadata", "reasoning-signature", "redacted-reasoning", "tool-output",
   "step-output", "abort", "watch", "tripwire"}

EventChunks ==
  {Chunk(t, JObj(<<"id">>, <<JLit("p")>>), JUndefined) : t \in WholePayloadTags}
  \cup
  {Source,
   Chunk("file", JObj(<<"mimeType", "data">>, <<JLit("text/plain"), JStr(<<"a", "b">>)>>),
         JUndefined),
   Chunk("tool-result", Put(Put(ToolPayload, "result", JNum(1)), "args", JNum(1)), JUndefined),
   Chunk("tool-error", Put(ToolPayload, "error", JLit("boom")), JUndefined),
   Chunk("tool-call-approval", Put(ToolPayload, "args", JNum(1)), JUndefined),
   Chunk("tool-call-suspended", Put(ToolPayload, "suspendPayload", JNum(1)), JUndefined),
   Chunk("error", JObj(<<"error", "id">>, <<JLit("boom"), JLit("p")>>), JUndefined)}

\* tags the switch has no tracker call for: raw, start, and a tag it has no case for
IgnoredChunks ==
  {Chunk(t, JObj(<<"id">>, <<JLit("p")>>), JUndefined) :
     t \in {"raw", "start", "routing-agent-start"}}

\* a chunk of every tag
Chunks ==
  {TextStart, TextDelta(<<"a">>), TextEnd,
   ReasoningStart, ReasoningDelta(<<"b">>), ReasoningEnd,
   ToolStart, ToolDelta(<<"{", "}">>), ToolEnd, ToolCall,
   ObjectPart(JArr(<<JNum(1)>>)), ObjectResult(JArr(<<JNum(1)>>)),
   StepStart, Finish(FullUsage), StepFinish}
  \cup EventChunks \cup IgnoredChunks

\* text and reasoning blocks
TextFamily ==
  {TextStart, TextEnd, ReasoningStart, ReasoningDelta(<<"b">>), ReasoningEnd}
  \cup {TextDelta(t) : t \in Texts}

\* tool calls, streamed or complete
ToolFamily == {ToolStart, ToolEnd, ToolCall} \cup {ToolDelta(t) : t \in ArgsTexts}

\* partial objects, beside a text block and an event
ObjectFamily ==
  {TextStart, TextEnd, Source}
  \cup {ObjectPart(o) : o \in Objects} \cup {ObjectResult(o) : o \in Objects}

\* steps, their usage, and the chunk-level events inside them
StepFamily ==
  {StepStart, StepFinish, TextStart, TextEnd, Source} \cup {Finish(u) : u \in Usages}

\* lifecycle chunks that can arrive out of order: ends and deltas without a
\* start, chunk-level chunks before a step-start, step-finish without step-start
LifecycleFamily ==
  {TextEnd, ToolDelta(<<"]">>), ToolEnd, ObjectResult(JArr(<<JNum(1)>>)), Source,
   StepStart, StepFinish}

\* chunks the switch ignores, a tool call whose arguments do not parse, an event
ForwardFamily == IgnoredChunks \cup {ToolStart, ToolDelta(<<"]">>), ToolEnd, Source}

\* a text block with two different deltas, and an event
PairFamily == {TextStart, TextDelta(<<"a">>), TextDelta(<<"b">>), TextEnd, Source}

\* blocks ended with an absent output (a text-end after no delta, an object-result
\* with no object), with null, and with a value
OutputFamily ==
  {TextStart, TextDelta(<<"a">>), TextEnd, ObjectPart(JArr(<<JNum(1)>>)),
   ObjectResult(JUndefined), ObjectResult(JNull), ObjectResult(JArr(<<JNum(1)>>))}

\* chunks that between them make every kind of backend call: createChildSpan
\* for a step and for a chunk, end for both, createEventSpan, update
ThrowFamily == {TextStart, TextEnd, Source, Finish(FullUsage), StepFinish}

\* steps, the four kinds of multi-part block, a delta and an event
StreamFamily ==
  {StepStart, StepFinish, TextStart, TextDelta(<<"a">>), TextEnd, ReasoningStart,
   ReasoningEnd, ToolStart, ToolEnd, ObjectPart(JArr(<<JNum(1)>>)),
   ObjectResult(JArr(<<JNum(1)>>)), Source}

\* the tags that open a multi-part span, and the tag that closes each
BlockStartTags ==
  {"text-start", "reasoning-start", "tool-call-input-streaming-start", "object"}

BlockEndTag(tag) ==
  CASE tag = "text-start" -> "text-end"
    [] tag = "reasoning-start" -> "reasoning-end"
    [] tag = "tool-call-input-streaming-start" -> "tool-call-input-streaming-end"
    [] tag = "object" -> "object-result"

\* where a stream stands after one more tag: outside every step, in a step, in
\* the block a start tag opened, or "bad" when the tag cannot come there in a
\* stream whose steps are step-start .. step-finish pairs, whose chunk-level
\* tags are inside steps and whose blocks end before another start or step-finish
StreamMode(m, tag) ==
  CASE m = "bad" -> "bad"
    [] m = "outside" ->
         CASE tag = "step-start" -> "step"
           [] tag = "step-finish" -> "outside"
           [] OTHER -> "bad"
    [] m = "step" ->
         CASE tag = "step-start" -> "bad"
           [] tag = "step-finish" -> "outside"
           [] tag \in BlockStartTags -> tag
           [] OTHER -> "step"
    [] OTHER ->
         CASE tag \in {"step-start", "step-finish"} -> "bad"
           [] tag = "object" /\ m = "object" -> m
           [] tag \in BlockStartTags -> "bad"
           [] tag = BlockEndTag(m) -> "step"
           [] OTHER -> m

RECURSIVE StreamScan(_, _, _)
\* where the stream q stands after its tags from position i on, starting in m
StreamScan(q, i, m) ==
  IF i > Len(q) THEN m ELSE StreamScan(q, i + 1, StreamMode(m, q[i].type))

\* {k1: payload.k1, ...}
Project(payload, ks) == JObj(ks, [i \in 1..Len(ks) |-> Get(payload, ks[i])])

\* a tool call's input that breaks out of the switch on a parse failure
ToolInputNoCatch(acc) ==
  Bind(Get(acc, "toolInput"), LAMBDA text :
    IF Truthy(text) THEN JsonParse(text.str) ELSE [threw |-> FALSE, val |-> EmptyObject])

\* try { toolInput = acc.toolInput ? JSON.parse(acc.toolInput) : {} }
\* catch { toolInput = acc.toolInput }
ToolInputOf(acc) ==
  Bind(Get(acc, "toolInput"), LAMBDA text :
    IF Truthy(text)
      THEN Bind(JsonParse(text.str), LAMBDA parsed :
             IF parsed.threw THEN [threw |-> FALSE, val |-> text] ELSE parsed)
      ELSE [threw |-> FALSE, val |-> EmptyObject])

\* a switch whose default records the chunk as an event span
IgnoreAsEvent(w, chunk) == createEventSpan(w, chunk.type, chunk.payload, "handle", "handle")

\* case 'raw': case 'start': break, and a tag that matches no case: no tracker call
Ignore(w, chunk) == w

\* the switch of transform(): the tracker calls made for a chunk
Dispatch(w, chunk, r1, r2) ==
  LET type == chunk.type
      payload == chunk.payload
  IN
  CASE type = "text-start" -> startSpan(w, "text", JUndefined, r1, r2)
    [] type = "text-delta" -> appendToAccumulator(w, "text", Get(payload, "text"))
    [] type = "text-end" -> endCurrentSpan(w, Get(getAccumulator(w), "text"), r1)
    [] type = "tool-call-input-streaming-start" ->
         startSpan(w, "tool-call", Project(payload, <<"toolName", "toolCallId">>), r1, r2)
    [] type = "tool-call-delta" ->
         appendToAccumulator(w, "toolInput", Get(payload, "argsTextDelta"))
    [] type \in {"tool-call-input-streaming-end", "tool-call"} ->
         Bind(ToolInputOf(getAccumulator(w)), LAMBDA toolInput :
           IF toolInput.threw THEN [w EXCEPT !.threw = TRUE]
           ELSE Bind(JObj(<<"toolName", "toolCallId", "toolInput">>,
                          <<Get(getAccumulator(w), "toolName"),
                            Get(getAccumulator(w), "toolCallId"), toolInput.val>>),
                     LAMBDA out : endCurrentSpan(w, out, r1)))
    [] type = "reasoning-start" -> startSpan(w, "reasoning", JUndefined, r1, r2)
    [] type = "reasoning-delta" -> appendToAccumulator(w, "text", Get(payload, "text"))
    [] type = "reasoning-end" -> endCurrentSpan(w, Get(getAccumulator(w), "text"), r1)
    [] type \in {"response-metadata", "reasoning-signature", "redacted-reasoning"} ->
         createEventSpan(w, type, payload, r1, r2)
    [] type = "source" ->
         createEventSpan(w, "source", Project(payload, <<"sourceType", "title", "url">>), r1, r2)
    [] type = "file" ->
         createEventSpan(w, "file",
           JObj(<<"mimeType", "size">>,
                <<Get(payload, "mimeType"),
                  IF Get(payload, "data").kind = "string"
                    THEN JNum(Len(Get(payload, "data").str)) ELSE JUndefined>>), r1, r2)
    [] type = "tool-result" ->
         createEventSpan(w, "tool-result",
           Project(payload, <<"toolName", "toolCallId", "result", "isError">>), r1, r2)
    [] type = "tool-error" ->
         createEventSpan(w, "tool-error",
           Project(payload, <<"toolName", "toolCallId", "error">>), r1, r2)
    [] type = "tool-output" -> createEventSpan(w, "tool-output", payload, r1, r2)
    [] type = "tool-call-approval" ->
         createEventSpan(w, "tool-call-approval",
           Project(payload, <<"toolName", "toolCallId", "args">>), r1, r2)
    [] type = "tool-call-suspended" ->
         createEventSpan(w, "tool-call-suspended",
           Project(payload, <<"toolName", "toolCallId">>), r1, r2)
    [] type = "object" ->
         IF ~hasActiveSpan(w) THEN startSpan(w, "object", JUndefined, r1, r2) ELSE w
    [] type = "object-result" -> endCurrentSpan(w, chunk.object, r1)
    [] type = "step-output" -> createEventSpan(w, "step-output", payload, r1, r2)
    [] type = "error" -> createEventSpan(w, "error", Project(payload, <<"error">>), r1, r2)
    [] type = "abort" -> createEventSpan(w, "abort", payload, r1, r2)
    [] type \in {"watch", "tripwire"} -> createEventSpan(w, type, payload, r1, r2)
    [] type = "step-start" -> startStep(w, r1)
    [] type = "finish" ->
         Bind(Get(payload, "usage"), LAMBDA usage :
           IF Truthy(usage)
             THEN setTokenUsage(w, Project(usage, <<"inputTokens", "outputTokens",
                                                    "totalTokens">>))
             ELSE w)
    [] type = "step-finish" -> endStep(w, JUndefined, r1, r2)
    [] OTHER -> Ignore(w, chunk)

(***************************************************************************)
(* The state machine.                                                      *)
(***************************************************************************)
\* the tracker and the backend as a method sees them; now numbers the operation
World(now) ==
  [modelSpan |-> modelSpan, currentStepSpan |-> currentStepSpan,
   currentChunkSpan |-> currentChunkSpan, completedChunkSpans |-> completedChunkSpans,
   accumulator |-> accumulator, stepIndex |-> stepIndex, chunkSequence |-> chunkSequence,
   pendingTokenUsage |-> pendingTokenUsage, isEnabled |-> isEnabled,
   spans |-> spans, calls |-> calls, threw |-> FALSE, ret |-> NoSpan, now |-> now]

Commit(w) ==
  /\ modelSpan' = w.modelSpan
  /\ currentStepSpan' = w.currentStepSpan
  /\ currentChunkSpan' = w.currentChunkSpan
  /\ completedChunkSpans' = w.completedChunkSpans
  /\ accumulator' = w.accumulator
  /\ stepIndex' = w.stepIndex
  /\ chunkSequence' = w.chunkSequence
  /\ pendingTokenUsage' = w.pendingTokenUsage
  /\ isEnabled' = w.isEnabled
  /\ spans' = w.spans
  /\ calls' = w.calls

trackerVars == <<modelSpan, currentStepSpan, currentChunkSpan, completedChunkSpans,
                 accumulator, stepIndex, chunkSequence, pendingTokenUsage, isEnabled,
                 spans, calls>>

\* the generation span the caller made for an enabled tracker
GenerationSpan ==
  Span("LLM_GENERATION", JLit("llm generation"), NoSpan, EmptyObject, 0, JUndefined, FALSE)

\* new ModelSpanTracker(modelSpan) on a generation span of its own
FreshTracker ==
  [modelSpan |-> 1, currentStepSpan |-> NoSpan, currentChunkSpan |-> NoSpan,
   completedChunkSpans |-> <<>>, accumulator |-> EmptyObject, stepIndex |-> 0,
   chunkSequence |-> 0, pendingTokenUsage |-> JUndefined, isEnabled |-> TRUE,
   spans |-> <<GenerationSpan>>, calls |-> <<>>, threw |-> FALSE, ret |-> NoSpan,
   now |-> 0]

\* the second generation before its first chunk
FreshPeer == [tracker |-> FreshTracker, input |-> <<>>, output |-> <<>>, errored |-> FALSE]

\* new ModelSpanTracker(modelSpan), with or without a generation span, and
\* createChunkTracingTransform(tracker), with or without a tracker
Init ==
  /\ hasTracker \in BOOLEAN
  /\ isEnabled \in (IF hasTracker THEN BOOLEAN ELSE {FALSE})
  /\ modelSpan = IF isEnabled THEN 1 ELSE NoSpan
  /\ spans = IF isEnabled THEN <<GenerationSpan>> ELSE <<>>
  /\ currentStepSpan = NoSpan
  /\ currentChunkSpan = NoSpan
  /\ completedChunkSpans = <<>>
  /\ accumulator = EmptyObject
  /\ stepIndex = 0
  /\ chunkSequence = 0
  /\ pendingTokenUsage = JUndefined
  /\ calls = <<>>
  /\ input = <<>>
  /\ output = <<>>
  /\ errored = FALSE
  /\ invoked = <<>>
  /\ threw = FALSE
  /\ events = <<>>
  /\ peer = FreshPeer

\* a controller that puts the chunk at the head of its queue
enqueueFirst(queue, chunk) == <<chunk>> \o queue

\* controller.enqueue(chunk)
enqueue(queue, chunk) == Append(queue, chunk)

Event(kind, by) == [kind |-> kind, by |-> by]

\* a transform that enqueues chunk n before it makes the k backend calls
enqueueThenDispatch(log, n, k, forwarded) ==
  log \o (IF forwarded THEN <<Event("enqueue", n)>> ELSE <<>>)
      \o [i \in 1..k |-> Event("call", n)]

\* the switch runs, making its k backend calls, and controller.enqueue(chunk)
\* is the statement after it, reached unless an exception left the switch
dispatchThenEnqueue(log, n, k, forwarded) ==
  log \o [i \in 1..k |-> Event("call", n)]
      \o (IF forwarded THEN <<Event("enqueue", n)>> ELSE <<>>)

\* transform(chunk, controller): dispatch to the tracker, then enqueue the chunk
Transform(chunk, r1, r2) ==
  /\ ~errored
  /\ input' = Append(input, chunk)
  /\ IF ~hasTracker
       THEN /\ output' = enqueue(output, chunk)
            /\ events' = dispatchThenEnqueue(events, Len(input) + 1, 0, TRUE)
            /\ errored' = FALSE
            /\ UNCHANGED trackerVars
       ELSE \E w0 \in {World(Len(input) + 1)} :
            \E w \in {Dispatch(w0, chunk, r1, r2)} :
              /\ Commit(w)
              /\ errored' = w.threw
              /\ output' = IF w.threw THEN output ELSE enqueue(output, chunk)
              /\ events' = dispatchThenEnqueue(events, Len(input) + 1,
                                               Len(w.calls) - Len(calls), ~w.threw)
  /\ UNCHANGED <<hasTracker, invoked, threw, peer>>

\* the stream carries chunks of every tag
Next ==
  \E chunk \in Chunks, r1, r2 \in Responses :
    Len(input) < MaxChunks /\ Transform(chunk, r1, r2)

Spec == Init /\ [][Next]_vars

\* a transform over an enabled tracker
InitEnabled == Init /\ hasTracker /\ isEnabled

\* the stream carries text and reasoning blocks
NextText ==
  \E chunk \in TextFamily, r1, r2 \in Answers :
    Len(input) < MaxLen /\ Transform(chunk, r1, r2)

SpecText == InitEnabled /\ [][NextText]_vars

\* the stream carries tool calls
NextTool ==
  \E chunk \in ToolFamily, r1, r2 \in Answers :
    Len(input) < MaxLen /\ Transform(chunk, r1, r2)

SpecTool == InitEnabled /\ [][NextTool]_vars

\* the stream carries partial objects
NextObject ==
  \E chunk \in ObjectFamily, r1, r2 \in Answers :
    Len(input) < MaxLen /\ Transform(chunk, r1, r2)

SpecObject == InitEnabled /\ [][NextObject]_vars

\* the stream carries steps
NextStep ==
  \E chunk \in StepFamily, r1, r2 \in Answers :
    Len(input) < MaxLen /\ Transform(chunk, r1, r2)

SpecStep == InitEnabled /\ [][NextStep]_vars

(***************************************************************************)
(* A caller that invokes the tracker's methods directly.  An exception of  *)
(* the backend propagates to the caller, who may go on calling.            *)
(***************************************************************************)
Invoke(method, w) ==
  /\ hasTracker
  /\ Len(invoked) < MaxOps
  /\ Commit(w)
  /\ invoked' = Append(invoked, method)
  /\ threw' = w.threw
  /\ UNCHANGED <<hasTracker, input, output, errored, events, peer>>

\* the operation number of the next direct call
NextOp == Len(invoked) + 1

OpStartStep ==
  \E r \in Responses, w0 \in {World(NextOp)} :
    \E w \in {startStep(w0, r)} : Invoke("startStep", w)

OpEndStep ==
  \E finishReason \in {JUndefined, JLit("stop")}, r1, r2 \in Responses,
     w0 \in {World(NextOp)} :
    \E w \in {endStep(w0, finishReason, r1, r2)} : Invoke("endStep", w)

OpSetTokenUsage ==
  \E usage \in {FullUsage, PartialUsage}, w0 \in {World(NextOp)} :
    \E w \in {setTokenUsage(w0, usage)} : Invoke("setTokenUsage", w)

OpStartSpan ==
  \E a \in {<<"text", JUndefined>>, <<"tool-call", ToolPayload>>}, r1, r2 \in Responses,
     w0 \in {World(NextOp)} :
    \E w \in {startSpan(w0, a[1], a[2], r1, r2)} : Invoke("startSpan", w)

OpUpdateAccumulator ==
  \E updates \in {JObj(<<"text">>, <<JStr(<<"a">>)>>)}, w0 \in {World(NextOp)} :
    \E w \in {updateAccumulator(w0, updates)} : Invoke("updateAccumulator", w)

OpAppendToAccumulator ==
  \E text \in {JStr(<<"b">>)}, w0 \in {World(NextOp)} :
    \E w \in {appendToAccumulator(w0, "text", text)} : Invoke("appendToAccumulator", w)

OpEndCurrentSpan ==
  \E out \in {JUndefined, JStr(<<"a">>)}, r \in Responses, w0 \in {World(NextOp)} :
    \E w \in {endCurrentSpan(w0, out, r)} : Invoke("endCurrentSpan", w)

OpCreateEventSpan ==
  \E r1, r2 \in Responses, w0 \in {World(NextOp)} :
    \E w \in {createEventSpan(w0, "source", Source.payload, r1, r2)} :
      Invoke("createEventSpan", w)

NextOps ==
  \/ OpStartStep
  \/ OpEndStep
  \/ OpSetTokenUsage
  \/ OpStartSpan
  \/ OpUpdateAccumulator
  \/ OpAppendToAccumulator
  \/ OpEndCurrentSpan
  \/ OpCreateEventSpan

\* a tracker, with or without a generation span
InitOps == Init /\ hasTracker

SpecOps == InitOps /\ [][NextOps]_vars

\* the stream carries ignored chunks, a malformed tool call and an event; there
\* is no tracker, a disabled or an enabled one, and the backend may throw
NextForward ==
  \E chunk \in ForwardFamily, r1, r2 \in Responses :
    Len(input) < MaxForward /\ Transform(chunk, r1, r2)

SpecForward == Init /\ [][NextForward]_vars

\* a second instance whose accumulator is a field shared by all instances
PeerThisSharedAccumulator(now) ==
  [peer.tracker EXCEPT !.accumulator = accumulator,
                       !.threw = FALSE, !.ret = NoSpan, !.now = now]

\* `this` in the methods of the second generation's tracker: its own fields
PeerThis(now) == [peer.tracker EXCEPT !.threw = FALSE, !.ret = NoSpan, !.now = now]

\* transform(chunk, controller) of the second generation's transform stream
TransformPeer(chunk, r1, r2) ==
  /\ ~peer.errored
  /\ \E w0 \in {PeerThis(Len(peer.input) + 1)} :
     \E w \in {Dispatch(w0, chunk, r1, r2)} :
       peer' = [tracker |-> w,
                input |-> Append(peer.input, chunk),
                output |-> IF w.threw THEN peer.output ELSE enqueue(peer.output, chunk),
                errored |-> w.threw]
  /\ UNCHANGED <<hasTracker, trackerVars, input, output, errored, invoked, threw, events>>

\* two generations stream at the same time, each through its own transform
NextPair ==
  \E chunk \in PairFamily, r1, r2 \in Answers :
    /\ Len(input) + Len(peer.input) < MaxPair
    /\ \/ Transform(chunk, r1, r2)
       \/ TransformPeer(chunk, r1, r2)

SpecPair == InitEnabled /\ [][NextPair]_vars

\* the tracker is driven by the transform and by a direct caller
NextMixed ==
  /\ Len(input) + Len(invoked) < MaxMixed
  /\ \/ NextOps
     \/ \E chunk \in LifecycleFamily, r1, r2 \in Answers : Transform(chunk, r1, r2)

SpecMixed == InitOps /\ [][NextMixed]_vars

\* the stream ends its blocks with every kind of output
NextOutput ==
  \E chunk \in OutputFamily, r1, r2 \in Answers :
    Len(input) < MaxLen /\ Transform(chunk, r1, r2)

SpecOutput == InitEnabled /\ [][NextOutput]_vars

\* every backend call of the stream may throw
NextThrow ==
  \E chunk \in ThrowFamily, r1, r2 \in Responses :
    Len(input) < MaxThrow /\ Transform(chunk, r1, r2)

SpecThrow == InitEnabled /\ [][NextThrow]_vars

\* the stream is made of whole steps and whole blocks, cut at any point; the
\* backend returns a handle for every span
NextWellFormed ==
  \E chunk \in StreamFamily :
    /\ Len(input) < MaxStream
    /\ StreamScan(Append(input, chunk), 1, "outside") # "bad"
    /\ Transform(chunk, "handle", "handle")

SpecWellFormed == InitEnabled /\ [][NextWellFormed]_vars

(***************************************************************************)
(* What the history shows.                                                 *)
(***************************************************************************)
Last(q) == q[Len(q)]

\* the backend calls made while operation number i ran
CallsBy(i) == SelectSeq(calls, LAMBDA c : c.by = i)

(***************************************************************************)
(* C1.  Passthrough identity: as long as no exception has left transform() *)
(* (the backend did not throw), the enqueued sequence is the input         *)
(* sequence, chunk for chunk and in order, with no tracker, with a         *)
(* disabled tracker and with an enabled one.  An exception stops the       *)
(* stream before the chunk it hit is enqueued, and nothing after it.       *)
(***************************************************************************)
C1_Passthrough ==
  /\ ~errored => output = input
  /\ errored => output = SubSeq(input, 1, Len(input) - 1)

\* an enabled tracker with a span in progress has forwarded two chunks
C1_Witness ==
  /\ isEnabled /\ ~errored /\ currentChunkSpan # NoSpan
  /\ Len(output) = 2 /\ output[1] # output[2] /\ output = input

(***************************************************************************)
(* C2.  Disabled no-op: whatever methods are invoked on a tracker built    *)
(* without a generation span, the backend has received no call, the        *)
(* completed list is empty, no chunk span is active, and the accumulator,  *)
(* the step index and the chunk sequence counter have their initial        *)
(* values (so have the open step and the pending usage).                   *)
(***************************************************************************)
C2_DisabledNoOp ==
  ~isEnabled =>
    /\ calls = <<>> /\ spans = <<>>
    /\ getCompletedSpans(World(0)) = <<>>
    /\ ~hasActiveSpan(World(0))
    /\ accumulator = EmptyObject
    /\ stepIndex = 0 /\ chunkSequence = 0
    /\ currentStepSpan = NoSpan /\ pendingTokenUsage = JUndefined
    /\ ~threw

\* a disabled tracker after a start, an append and an end
C2_Witness ==
  /\ ~isEnabled
  /\ invoked = <<"startSpan", "appendToAccumulator", "endCurrentSpan">>

(***************************************************************************)
(* Blocks of a stream: a multi-part span is opened by a start tag and      *)
(* closed by an end tag.                                                   *)
(***************************************************************************)
StartTags == {"text-start", "reasoning-start", "tool-call-input-streaming-start", "object"}

EndTags ==
  {"text-end", "reasoning-end", "tool-call-input-streaming-end", "tool-call", "object-result"}

\* the position of the last start or end tag before position n, 0 when there is none
BlockStart(n) ==
  LET P == {p \in 1..(n - 1) : input[p].type \in StartTags \cup EndTags}
  IN IF P = {} THEN 0 ELSE CHOOSE p \in P : \A q \in P : q <= p

\* the chunk span the backend returned to the chunk at position p, if any
StartedSpan(p) ==
  LET made == SelectSeq(calls, LAMBDA c : c.by = p /\ c.op = "createChildSpan"
                                           /\ c.type = "LLM_CHUNK")
  IN IF made = <<>> THEN NoSpan ELSE made[1].result

RECURSIVE ConcatText(_, _, _, _)
\* the texts under key k of the chunks at positions from..to, concatenated in order
ConcatText(k, from, to, acc) ==
  IF from > to THEN acc
  ELSE ConcatText(k, from + 1, to, acc \o Get(input[from].payload, k).str)

\* the one call that ends chunk span h with output out, made by operation n
EndCall(h, out, n) ==
  Call("end", h, "LLM_CHUNK", spans[h].name, EmptyObject, out, NoSpan, n)

SeqNum(h) == Get(spans[h].attributes, "sequenceNumber").num

\* the completed chunk spans created under step span st, in the order they were completed
CompletedUnder(st) == SelectSeq(completedChunkSpans, LAMBDA h : spans[h].parent = st)

(***************************************************************************)
(* C3.  Sequence numbering: the completed chunk spans of a step carry the  *)
(* sequence numbers 0..N-1 in the order they arrived, a new step starting  *)
(* again at 0.  The tracker breaks it: a span opened by startSpan takes    *)
(* the counter's value when it starts, and the counter moves only when a   *)
(* span completes, so an event span created while the multi-part span is   *)
(* open takes the same number.                                             *)
(***************************************************************************)
C3_SequenceNumbering ==
  \A st \in 1..Len(spans) :
    spans[st].type = "LLM_STEP" =>
      \A i \in 1..Len(CompletedUnder(st)) : SeqNum(CompletedUnder(st)[i]) = i - 1

(***************************************************************************)
(* C4.  Accumulation correctness: when a text-end (reasoning-end) closes a *)
(* block opened by text-start (reasoning-start) for which the backend      *)
(* returned a span, and the chunks in between are one or more text-delta   *)
(* (reasoning-delta) chunks, the chunk makes exactly one backend call: it  *)
(* ends that span, once, with the concatenation of the deltas' texts, in   *)
(* order, as output.                                                       *)
(***************************************************************************)
TextBlock(start, delta, end) ==
  LET n == Len(input)
      p == BlockStart(n)
      h == StartedSpan(p)
  IN (/\ n >= 1 /\ Last(input).type = end
      /\ p >= 1 /\ input[p].type = start
      /\ p + 1 < n
      /\ \A i \in (p + 1)..(n - 1) : input[i].type = delta
      /\ h # NoSpan)
     => LET text == JStr(ConcatText("text", p + 1, n - 1, <<>>)) IN
        /\ CallsBy(n) = <<EndCall(h, text, n)>>
        /\ spans[h].ended = 1 /\ spans[h].output = text
        /\ Last(completedChunkSpans) = h
        /\ currentChunkSpan = NoSpan

C4_Accumulation ==
  /\ TextBlock("text-start", "text-delta", "text-end")
  /\ TextBlock("reasoning-start", "reasoning-delta", "reasoning-end")

\* text-start, text-delta "a", text-delta "b", text-end has ended a span with "ab"
C4_Witness ==
  /\ input = <<TextStart, TextDelta(<<"a">>), TextDelta(<<"b">>), TextEnd>>
  /\ completedChunkSpans # <<>>
  /\ spans[Last(completedChunkSpans)].output = JStr(<<"a", "b">>)

ToolOutputKeys == <<"toolName", "toolCallId", "toolInput">>

\* a streamed tool call closed by the last chunk: what the chunk did, given the
\* toolInput expected for the concatenated argument text
ToolBlock(Expected(_)) ==
  LET n == Len(input)
      p == BlockStart(n)
      h == StartedSpan(p)
  IN (/\ n >= 1 /\ Last(input).type = "tool-call-input-streaming-end"
      /\ p >= 1 /\ input[p].type = "tool-call-input-streaming-start"
      /\ \A i \in (p + 1)..(n - 1) : input[i].type = "tool-call-delta"
      /\ h # NoSpan)
     => LET text == ConcatText("argsTextDelta", p + 1, n - 1, <<>>)
            out == JObj(ToolOutputKeys,
                        <<Get(input[p].payload, "toolName"),
                          Get(input[p].payload, "toolCallId"), Expected(text)>>)
        IN /\ ~errored
           /\ CallsBy(n) = <<EndCall(h, out, n)>>
           /\ spans[h].ended = 1 /\ spans[h].output = out
           /\ Last(completedChunkSpans) = h
           /\ output = input

\* the parsed value of valid JSON, the raw string otherwise
ParsedOrRaw(text) == IF JsonValid(text) THEN ParseValue(text, 1).val ELSE JStr(text)

\* the same, but the empty object when there is no text at all
ParsedOrRawOrEmpty(text) == IF text = <<>> THEN EmptyObject ELSE ParsedOrRaw(text)

(***************************************************************************)
(* C5 as stated.  Tool-call JSON round-trip: a streaming-start for which   *)
(* the backend returned a span, then tool-call-delta chunks, then          *)
(* streaming-end: the span is ended once with {toolName, toolCallId,       *)
(* toolInput}, toolInput being the parsed value when the concatenated      *)
(* deltas are valid JSON and the raw concatenated string when they are     *)
(* not; no exception leaves the transform and the chunk is forwarded.      *)
(***************************************************************************)
C5_RoundTripAsStated == ToolBlock(ParsedOrRaw)

(***************************************************************************)
(* C5 amended.  The same, except that when the concatenated deltas are     *)
(* empty (no delta, or only empty ones) toolInput is the empty object {}   *)
(* and not the raw empty string.                                           *)
(***************************************************************************)
C5_RoundTrip ==
  /\ ToolBlock(ParsedOrRawOrEmpty)
  /\ \A t \in ArgsTexts :
       (input = <<ToolStart, ToolDelta(t), ToolEnd>> /\ completedChunkSpans # <<>>) =>
         Get(spans[Last(completedChunkSpans)].output, "toolInput") =
           CASE t = <<"{", "}">> -> EmptyObject
             [] t = <<>> -> EmptyObject
             [] OTHER -> JStr(t)

\* "[1" and "]" were parsed to the array [1]; the span is ended with it
C5_Witness ==
  /\ input = <<ToolStart, ToolDelta(<<"[", "1">>), ToolDelta(<<"]">>), ToolEnd>>
  /\ completedChunkSpans # <<>>
  /\ Get(spans[Last(completedChunkSpans)].output, "toolInput") = JArr(<<JNum(1)>>)

(***************************************************************************)
(* C6.  Tool-call convergence: a tool call that arrives as one complete    *)
(* 'tool-call' chunk, no streaming-start before it being open, results in  *)
(* one completed chunk span whose output has the shape {toolName,          *)
(* toolCallId, toolInput}, as the streamed form does.  The transform       *)
(* breaks it: for 'tool-call' it only calls endCurrentSpan, which does     *)
(* nothing when no chunk span is open.                                     *)
(***************************************************************************)
C6_Convergence ==
  LET n == Len(input)
      p == BlockStart(n)
  IN (/\ isEnabled /\ n >= 1 /\ Last(input).type = "tool-call"
      /\ (p = 0 \/ input[p].type \in EndTags))
     => \E i \in 1..Len(completedChunkSpans) :
          LET h == completedChunkSpans[i] IN
          /\ \E j \in 1..Len(calls) : calls[j].by = n /\ h \in {calls[j].on, calls[j].result}
          /\ spans[h].output.keys = ToolOutputKeys

(***************************************************************************)
(* Steps of a behaviour.                                                   *)
(***************************************************************************)
\* the backend calls made by the step
NewCalls == SubSeq(calls', Len(calls) + 1, Len(calls'))

\* the step is transform() dispatching a chunk of one of the tags
Dispatches(tags) == Len(input') = Len(input) + 1 /\ Last(input').type \in tags

\* the step is a direct call of the method
Invokes(method) == Len(invoked') = Len(invoked) + 1 /\ Last(invoked') = method

UsageKeys == {"inputTokens", "outputTokens", "totalTokens"}

(***************************************************************************)
(* C7.  Deferred usage attachment: when step-finish is dispatched with a   *)
(* step span open and the chunk before it was a finish carrying usage,     *)
(* the step span first receives one update whose attributes hold           *)
(* inputTokens, outputTokens and totalTokens as that usage has them, and   *)
(* is then ended.  When no finish chunk came before, the open step span    *)
(* is ended with no update and no usage attribute, and no exception.       *)
(***************************************************************************)
C7_DeferredUsage ==
  [][
    (Dispatches({"step-finish"}) /\ isEnabled /\ currentStepSpan # NoSpan) =>
      LET st == currentStepSpan
          usage == IF input # <<>> /\ Last(input).type = "finish"
                     THEN Get(Last(input).payload, "usage") ELSE JUndefined
      IN /\ Truthy(usage) =>
              /\ Len(NewCalls) = 2
              /\ NewCalls[1].op = "update" /\ NewCalls[1].on = st
              /\ \A k \in UsageKeys :
                   /\ HasKey(NewCalls[1].attributes, k)
                   /\ Get(NewCalls[1].attributes, k) = Get(usage, k)
                   /\ Get(spans'[st].attributes, k) = Get(usage, k)
              /\ NewCalls[2].op = "end" /\ NewCalls[2].on = st
              /\ spans'[st].ended = 1
              /\ ~errored'
         /\ (\A i \in 1..Len(input) : input[i].type # "finish") =>
              /\ Len(NewCalls) = 1
              /\ NewCalls[1].op = "end" /\ NewCalls[1].on = st
              /\ \A k \in UsageKeys : ~HasKey(spans'[st].attributes, k)
              /\ spans'[st].ended = 1
              /\ ~errored'
  ]_vars

\* step-start, finish with usage 10/5/15, step-finish: the ended step has them
C7_Witness ==
  /\ input = <<StepStart, Finish(FullUsage), StepFinish>>
  /\ Len(spans) = 2 /\ spans[2].type = "LLM_STEP" /\ spans[2].ended = 1
  /\ Get(spans[2].attributes, "inputTokens") = JNum(10)
  /\ Get(spans[2].attributes, "outputTokens") = JNum(5)
  /\ Get(spans[2].attributes, "totalTokens") = JNum(15)


\* the chunk-level tags of the streams that carry steps
ChunkLevelTags == {"text-start", "source"}

AutoStep ==
  /\ Len(NewCalls) >= 1
  /\ NewCalls[1].op = "createChildSpan" /\ NewCalls[1].type = "LLM_STEP"
  /\ NewCalls[1].on = modelSpan /\ spans[modelSpan].type = "LLM_GENERATION"
  /\ \A j \in 2..Len(NewCalls) : NewCalls[j].type # "LLM_STEP"
  /\ NewCalls[1].result = NoSpan => Len(NewCalls) = 1
  /\ NewCalls[1].result # NoSpan =>
       /\ Len(NewCalls) = 2
       /\ NewCalls[2].type = "LLM_CHUNK" /\ NewCalls[2].on = NewCalls[1].result
       /\ NewCalls[2].op = IF Last(input').type = "source" THEN "createEventSpan"
                           ELSE "createChildSpan"
       /\ spans'[NewCalls[1].result].parent = modelSpan
       /\ currentStepSpan' = NewCalls[1].result
       /\ NewCalls[2].result # NoSpan =>
            spans'[NewCalls[2].result].parent = NewCalls[1].result

\* no earlier chunk-level chunk made the tracker create a step
FirstAutoStep ==
  ~\E j \in 1..Len(calls) :
     calls[j].type = "LLM_STEP" /\ input[calls[j].by].type \in ChunkLevelTags

\* the step spans ended so far
StepsEnded == Len(SelectSeq(calls, LAMBDA c : c.op = "end" /\ c.type = "LLM_STEP"))

(***************************************************************************)
(* C8 as stated.  Auto step creation: a chunk-level chunk dispatched on an *)
(* enabled tracker with no open step creates one STEP span under the       *)
(* generation span and then the CHUNK span under that step, and for the    *)
(* first such event of a tracker the step has stepIndex 0.                 *)
(***************************************************************************)
C8_AutoStepAsStated ==
  [][
    (Dispatches(ChunkLevelTags) /\ isEnabled /\ currentStepSpan = NoSpan) =>
      /\ AutoStep
      /\ FirstAutoStep => Get(NewCalls[1].attributes, "stepIndex") = JNum(0)
  ]_vars

(***************************************************************************)
(* C8 amended.  Auto step creation.  When a chunk-level chunk (text-start, *)
(* or the event chunk source) is dispatched on an enabled tracker with no  *)
(* open step, the first backend call creates one STEP span as a child of   *)
(* the generation span, and no other STEP span is created; when the        *)
(* backend returns that step, the next and last call creates the CHUNK     *)
(* span as a child of it, and the step is the tracker's open step.  The    *)
(* step has stepIndex 0 when no step span was ended before the event; in   *)
(* general its stepIndex is the number of step spans ended before.         *)
(***************************************************************************)
C8_AutoStep ==
  [][
    (Dispatches(ChunkLevelTags) /\ isEnabled /\ currentStepSpan = NoSpan) =>
      /\ AutoStep
      /\ Get(NewCalls[1].attributes, "stepIndex") = JNum(StepsEnded)
      /\ StepsEnded = 0 => NewCalls[1].attributes = JObj(<<"stepIndex">>, <<JNum(0)>>)
  ]_vars

\* text-start alone: step 0 under the generation span, then the chunk span under it
C8_Witness ==
  /\ input = <<TextStart>>
  /\ Len(spans) = 3 /\ Len(calls) = 2
  /\ spans[2].type = "LLM_STEP" /\ spans[2].parent = 1
  /\ Get(spans[2].attributes, "stepIndex") = JNum(0)
  /\ spans[3].type = "LLM_CHUNK" /\ spans[3].parent = 2
  /\ currentChunkSpan = 3

(***************************************************************************)
(* C9.  Double-end safety: endCurrentSpan invoked while no chunk span is   *)
(* open (none was started, or the last one was ended) does not throw,      *)
(* makes no backend call, appends nothing to the completed list and        *)
(* leaves the chunk sequence counter, and every other field, as they are.  *)
(***************************************************************************)
C9_DoubleEnd ==
  [][
    (Invokes("endCurrentSpan") /\ currentChunkSpan = NoSpan) =>
      /\ ~threw'
      /\ calls' = calls /\ spans' = spans
      /\ completedChunkSpans' = completedChunkSpans
      /\ chunkSequence' = chunkSequence
      /\ UNCHANGED trackerVars
  ]_vars

\* a span was started and ended, and endCurrentSpan was invoked once more
C9_Witness ==
  /\ isEnabled /\ ~threw
  /\ invoked = <<"startSpan", "endCurrentSpan", "endCurrentSpan">>
  /\ Len(completedChunkSpans) = 1 /\ chunkSequence = 1
  /\ Len(SelectSeq(calls, LAMBDA c : c.op = "end")) = 1

(***************************************************************************)
(* C10.  Idempotent object-start.  In a run of consecutive 'object'        *)
(* chunks whose first one opened a chunk span, the later ones make no      *)
(* backend call and the span stays the active one; an 'object-result'      *)
(* that follows the run makes one backend call, which ends that span with  *)
(* the chunk's object as output, and the run has created one chunk span.   *)
(***************************************************************************)
\* the first position of the run of 'object' chunks that ends at position m
RunStart(m) ==
  CHOOSE q \in 1..m :
    /\ \A i \in q..m : input[i].type = "object"
    /\ q > 1 => input[q - 1].type # "object"

ChunkSpansCreatedBy(from, to) ==
  Len(SelectSeq(calls, LAMBDA c : c.by \in from..to /\ c.type = "LLM_CHUNK"
                                   /\ c.op \in {"createChildSpan", "createEventSpan"}))

C10_IdempotentObject ==
  LET n == Len(input) IN
  /\ (n >= 2 /\ input[n].type = "object" /\ input[n - 1].type = "object"
      /\ StartedSpan(RunStart(n)) # NoSpan) =>
        /\ \A i \in (RunStart(n) + 1)..n : CallsBy(i) = <<>>
        /\ hasActiveSpan(World(0))
        /\ currentChunkSpan = StartedSpan(RunStart(n))
        /\ ChunkSpansCreatedBy(RunStart(n), n) = 1
  /\ (n >= 2 /\ input[n].type = "object-result" /\ input[n - 1].type = "object"
      /\ StartedSpan(RunStart(n - 1)) # NoSpan) =>
        LET h == StartedSpan(RunStart(n - 1)) IN
        /\ CallsBy(n) = <<EndCall(h, input[n].object, n)>>
        /\ spans[h].ended = 1 /\ spans[h].output = input[n].object
        /\ Last(completedChunkSpans) = h
        /\ ~hasActiveSpan(World(0))
        /\ ChunkSpansCreatedBy(RunStart(n - 1), n) = 1

\* two partial objects and the result: one chunk span, ended with the result
C10_Witness ==
  /\ input = <<ObjectPart(JArr(<<JNum(1)>>)), ObjectPart(JObj(<<"x">>, <<JNum(1)>>)),
               ObjectResult(JObj(<<"x">>, <<JNum(1)>>))>>
  /\ completedChunkSpans = <<3>> /\ Len(spans) = 3
  /\ spans[3].output = JObj(<<"x">>, <<JNum(1)>>) /\ spans[3].ended = 1

(***************************************************************************)
(* Spans of the backend, as the call log shows them.                       *)
(***************************************************************************)
\* the calls of end() received by span h, by their positions in the log
EndCallsOn(h) == {i \in 1..Len(calls) : calls[i].op = "end" /\ calls[i].on = h}

\* the spans of a type that a createChildSpan of the tracker returned
Created(type) == {h \in 1..Len(spans) : spans[h].type = type /\ ~spans[h].isEvent}

\* created by the tracker, and end() not yet called on it
Open(type) == {h \in Created(type) : EndCallsOn(h) = {}}

(***************************************************************************)
(* C11.  End at most once: whatever methods are invoked on the tracker,    *)
(* no span handle, step or chunk, receives two calls of end().  The        *)
(* tracker breaks it when end() throws: endCurrentSpan and endStep clear   *)
(* their reference only after end() returned, so the handle stays current  *)
(* and the next endCurrentSpan or endStep calls end() on it again.         *)
(***************************************************************************)
C11_EndOnce == \A h \in 1..Len(spans) : Cardinality(EndCallsOn(h)) <= 1

(***************************************************************************)
(* C12.  At most one open span of a kind: in every reachable state at most *)
(* one step span and at most one chunk span is open, a span being open     *)
(* when the tracker created it through the backend and end() has not been  *)
(* called on it.  The tracker breaks it: startStep and startSpan overwrite *)
(* their reference without ending the span it held, so a second step-start *)
(* (or text-start) leaves two step (chunk) spans open.                     *)
(***************************************************************************)
C12_AtMostOneOpen ==
  /\ Cardinality(Open("LLM_STEP")) <= 1
  /\ Cardinality(Open("LLM_CHUNK")) <= 1

(***************************************************************************)
(* C13.  The open chunk span is under the open step: whenever the tracker  *)
(* holds an open chunk span it holds an open step span too, and the chunk  *)
(* span was created as a child of that step span.  The tracker breaks it:  *)
(* endStep and startStep leave the chunk span reference as it is, so after *)
(* a step-finish (or a step-start) inside a block the open chunk span      *)
(* belongs to a step that is ended (or is no longer the current one).      *)
(***************************************************************************)
C13_ChunkUnderOpenStep ==
  (currentChunkSpan # NoSpan /\ currentChunkSpan \in Open("LLM_CHUNK")) =>
    /\ currentStepSpan # NoSpan
    /\ currentStepSpan \in Open("LLM_STEP")
    /\ spans[currentChunkSpan].parent = currentStepSpan

\* the chunk spans, multi-part and event, created under step span st
ChunkSpansUnder(st) ==
  {h \in 1..Len(spans) : spans[h].type = "LLM_CHUNK" /\ spans[h].parent = st}

(***************************************************************************)
(* C14.  Sequence numbers are unique and increasing within a step: of two  *)
(* chunk spans created under the same step span, multi-part or event, the  *)
(* one created later carries the larger sequenceNumber.  The tracker       *)
(* breaks it: the counter moves when a span completes, not when it is      *)
(* created, so an event span created while a multi-part span is open       *)
(* carries the number of that span.                                        *)
(***************************************************************************)
C14_UniqueIncreasing ==
  \A st \in 1..Len(spans) :
    \A h1, h2 \in ChunkSpansUnder(st) : h1 < h2 => SeqNum(h1) < SeqNum(h2)

\* the step span that the step-finish at position n ended, NoSpan when it ended none
StepEndedAt(n) ==
  LET ends == SelectSeq(calls, LAMBDA c : c.by = n /\ c.op = "end" /\ c.type = "LLM_STEP")
  IN IF ends = <<>> THEN NoSpan ELSE ends[1].on

\* the positions of the finish chunks of the stream
FinishAt == {m \in 1..Len(input) : input[m].type = "finish"}

(***************************************************************************)
(* C15.  Usage in either order: when a step-finish ended a step span and   *)
(* the stream's one finish chunk, carrying usage, is the chunk just before *)
(* or just after that step-finish, the step span carries the usage (and    *)
(* with it the finish reason) among its attributes.  The transform breaks  *)
(* it: a finish that arrives after step-finish only stores the usage as    *)
(* pending, the step span is ended already and is never updated, and the   *)
(* next startStep discards what is pending.                                *)
(***************************************************************************)
C15_UsageEitherOrder ==
  \A n \in 1..Len(input) : \A m \in FinishAt :
    (/\ input[n].type = "step-finish" /\ StepEndedAt(n) # NoSpan
     /\ FinishAt = {m} /\ m \in {n - 1, n + 1}
     /\ Truthy(Get(input[m].payload, "usage")))
    => \A k \in UsageKeys :
         Get(spans[StepEndedAt(n)].attributes, k) = Get(Get(input[m].payload, "usage"), k)

\* no backend call of the step threw
BackendAnswered == \A j \in 1..Len(NewCalls) : NewCalls[j].result # Thrown

(***************************************************************************)
(* C16.  No operation throws: in whatever state the tracker is, a direct   *)
(* call of one of its methods during which the backend does not throw      *)
(* returns normally, and a chunk dispatched by the transform during which  *)
(* the backend does not throw raises no error and is enqueued, so that     *)
(* the next chunk can be processed.  This holds for ends and deltas        *)
(* without a start, for chunk-level chunks before any step-start and for   *)
(* step-finish without step-start.                                         *)
(***************************************************************************)
C16_NoThrow ==
  [][
    BackendAnswered =>
      /\ Len(invoked') = Len(invoked) + 1 => ~threw'
      /\ Len(input') = Len(input) + 1 =>
           /\ ~errored'
           /\ output' = Append(output, Last(input'))
  ]_vars

\* a delta and an end without a start, then step-finish without step-start
C16_Witness ==
  /\ isEnabled /\ ~errored /\ ~threw
  /\ input = <<ToolDelta(<<"]">>), ToolEnd, StepFinish>>
  /\ output = input
  /\ calls = <<>>

\* the backend answered undefined to the j-th call of the step, a creation
Suppressed(j, op, type) ==
  /\ NewCalls[j].op = op /\ NewCalls[j].type = type /\ NewCalls[j].result = NoSpan

(***************************************************************************)
(* C17.  An absent handle is tolerated.  In a direct call during which the *)
(* backend does not throw: when the backend returns undefined for a step,  *)
(* a chunk or an event span, the call returns normally; an absent step     *)
(* leaves no step current and no child is created under it (the creation   *)
(* of the step is the call's last backend call); an absent chunk span      *)
(* leaves no chunk span current; an absent event span is not appended to   *)
(* the completed list and leaves the sequence counter at the number the    *)
(* creation was asked with.  Afterwards                                    *)
(* endCurrentSpan with no chunk span and endStep with no step make no      *)
(* backend call and change neither the completed list nor the counters.    *)
(* The completed list never holds an absent handle.                        *)
(***************************************************************************)
C17_AbsentHandle ==
  [][
    (BackendAnswered /\ Len(invoked') = Len(invoked) + 1) =>
      /\ \A j \in 1..Len(NewCalls) :
           /\ NewCalls[j].result = NoSpan => ~threw'
           /\ Suppressed(j, "createChildSpan", "LLM_STEP") =>
                j = Len(NewCalls) /\ currentStepSpan' = NoSpan
                /\ completedChunkSpans' = completedChunkSpans
           /\ Suppressed(j, "createChildSpan", "LLM_CHUNK") =>
                currentChunkSpan' = NoSpan /\ completedChunkSpans' = completedChunkSpans
           /\ Suppressed(j, "createEventSpan", "LLM_CHUNK") =>
                /\ completedChunkSpans' = completedChunkSpans
                /\ JNum(chunkSequence') = Get(NewCalls[j].attributes, "sequenceNumber")
      /\ (Invokes("endCurrentSpan") /\ currentChunkSpan = NoSpan) =>
           /\ NewCalls = <<>> /\ ~threw'
           /\ completedChunkSpans' = completedChunkSpans /\ chunkSequence' = chunkSequence
      /\ (Invokes("endStep") /\ currentStepSpan = NoSpan) =>
           /\ NewCalls = <<>> /\ ~threw'
           /\ stepIndex' = stepIndex
      /\ \A i \in 1..Len(completedChunkSpans') : completedChunkSpans'[i] # NoSpan
  ]_vars

\* the backend suppressed the step of a startSpan; the two ends made no call
C17_Witness ==
  /\ isEnabled /\ ~threw
  /\ invoked = <<"startSpan", "endCurrentSpan", "endStep">>
  /\ Len(calls) = 1 /\ calls[1].op = "createChildSpan" /\ calls[1].result = NoSpan
  /\ currentStepSpan = NoSpan /\ currentChunkSpan = NoSpan
  /\ completedChunkSpans = <<>>

\* where chunk n was enqueued, by its positions among the transform's events
EnqueuedAt(n) == {i \in 1..Len(events) : events[i] = Event("enqueue", n)}

(***************************************************************************)
(* C18.  Dispatch before forward.  The backend calls and the enqueues of   *)
(* the transform happen chunk by chunk: everything caused by a chunk comes *)
(* after the enqueue of the chunk before it, and the calls caused by a     *)
(* chunk come before its own enqueue.  Every backend call made for a chunk *)
(* is among these events.  A chunk is enqueued, once and unchanged,        *)
(* unless an exception left its dispatch: so is a chunk for which the      *)
(* dispatch made no call (no tracker, a disabled tracker, a tag the switch *)
(* ignores) and a tool call whose accumulated arguments do not parse.      *)
(***************************************************************************)
C18_DispatchBeforeForward ==
  /\ \A i, j \in 1..Len(events) :
       i < j => \/ events[i].by < events[j].by
                \/ events[i].by = events[j].by /\ events[i].kind = "call"
  /\ \A n \in 1..Len(input) :
       /\ Cardinality({i \in 1..Len(events) : events[i] = Event("call", n)})
            = Len(CallsBy(n))
       /\ (n < Len(input) \/ ~errored) =>
            Cardinality(EnqueuedAt(n)) = 1 /\ output[n] = input[n]
       /\ CallsBy(n) = <<>> => EnqueuedAt(n) # {}

\* the arguments "]" did not parse: the span is ended with the raw text, after
\* which the chunk is enqueued
C18_Witness ==
  /\ input = <<ToolStart, ToolDelta(<<"]">>), ToolEnd>>
  /\ output = input
  /\ events = <<Event("call", 1), Event("call", 1), Event("enqueue", 1),
                Event("enqueue", 2), Event("call", 3), Event("enqueue", 3)>>
  /\ Get(spans[3].output, "toolInput") = JStr(<<"]">>)

\* what the backend answered when chunk n asked it to create a span of the type
AnswerOf(log, n, type) ==
  LET made == SelectSeq(log, LAMBDA c : c.by = n /\ c.type = type
                                        /\ c.op \in {"createChildSpan", "createEventSpan"})
  IN IF made # <<>> /\ made[1].result = NoSpan THEN "undefined" ELSE "handle"

RECURSIVE Alone(_, _, _, _)
\* a tracker w after the chunks from position i on, processed alone, the backend
\* answering as the log says it did
Alone(w, chunks, log, i) ==
  IF i > Len(chunks) THEN w
  ELSE Alone(Dispatch([w EXCEPT !.now = i, !.ret = NoSpan], chunks[i],
                      AnswerOf(log, i, "LLM_STEP"), AnswerOf(log, i, "LLM_CHUNK")),
             chunks, log, i + 1)

\* the fields of a tracker, and the spans and calls of its generation
TrackerState(w) ==
  <<w.modelSpan, w.currentStepSpan, w.currentChunkSpan, w.completedChunkSpans,
    w.accumulator, w.stepIndex, w.chunkSequence, w.pendingTokenUsage, w.isEnabled,
    w.spans, w.calls>>

(***************************************************************************)
(* C19.  Isolation between generations: when the chunks of two             *)
(* generations go through their two transforms in any interleaving, the    *)
(* fields of each tracker, the backend calls it made and the spans of its  *)
(* generation are those it has after processing its own chunks alone.      *)
(***************************************************************************)
C19_Isolation ==
  /\ TrackerState(World(0)) = TrackerState(Alone(FreshTracker, input, calls, 1))
  /\ TrackerState(peer.tracker) =
       TrackerState(Alone(FreshTracker, peer.input, peer.tracker.calls, 1))

\* both generations are inside a text block, each with its own text accumulated
C19_Witness ==
  /\ input = <<TextStart, TextDelta(<<"a">>)>>
  /\ peer.input = <<TextStart, TextDelta(<<"b">>)>>
  /\ currentChunkSpan # NoSpan /\ peer.tracker.currentChunkSpan # NoSpan
  /\ accumulator = JObj(<<"text">>, <<JStr(<<"a">>)>>)
  /\ peer.tracker.accumulator = JObj(<<"text">>, <<JStr(<<"b">>)>>)

(***************************************************************************)
(* C20 as stated.  In every reachable state in which no chunk span is open *)
(* the accumulator is empty.                                               *)
(***************************************************************************)
C20_EmptyWithoutSpan == currentChunkSpan = NoSpan => accumulator = EmptyObject

\* the position of the chunk whose dispatch created span h
CreatedAt(h) ==
  calls[CHOOSE j \in 1..Len(calls) :
          calls[j].op = "createChildSpan" /\ calls[j].result = h].by

\* the position of the chunk whose dispatch ended span h
EndedAt(h) == calls[CHOOSE j \in EndCallsOn(h) : TRUE].by

\* the positions of the deltas that arrived while span h was open
DeltasOf(h) ==
  {i \in (CreatedAt(h) + 1)..(EndedAt(h) - 1) :
     input[i].type \in {"text-delta", "reasoning-delta"}}

(***************************************************************************)
(* C20 amended.  The accumulator is reset at the start and at the end of a *)
(* span and an ended span never shows stale data: it is empty right after  *)
(* a text-start or reasoning-start was dispatched and right after a        *)
(* text-end or reasoning-end ended a span, and the output of every ended   *)
(* text or reasoning span is the concatenation of the deltas that arrived  *)
(* between the chunk that created it and the chunk that ended it (the      *)
(* empty object when there was none).  While no chunk span is open the     *)
(* accumulator need not be empty: a delta that arrives outside a block is  *)
(* accumulated, and discarded by the next start.                           *)
(***************************************************************************)
C20_AccumulatorReset ==
  /\ (input # <<>> /\ Last(input).type \in {"text-start", "reasoning-start"}) =>
       accumulator = EmptyObject
  /\ (input # <<>> /\ Last(input).type \in {"text-end", "reasoning-end"}
      /\ CallsBy(Len(input)) # <<>>) =>
       accumulator = EmptyObject /\ currentChunkSpan = NoSpan
  /\ \A h \in Created("LLM_CHUNK") :
       EndCallsOn(h) # {} =>
         /\ CreatedAt(h) < EndedAt(h)
         /\ spans[h].output =
              IF DeltasOf(h) = {} THEN EmptyObject
              ELSE JStr(ConcatText("text", CreatedAt(h) + 1, EndedAt(h) - 1, <<>>))

\* a delta outside a block, then a block with no delta: its output is empty
C20_Witness ==
  /\ input = <<TextDelta(<<"a">>), TextStart, TextEnd>>
  /\ Len(spans) = 3 /\ spans[3].type = "LLM_CHUNK"
  /\ spans[3].ended = 1 /\ spans[3].output = EmptyObject
  /\ accumulator = EmptyObject

(***************************************************************************)
(* C21.  Monotonic step index: the step index is 0 before the first chunk, *)
(* never decreases, and changes only when a step-finish makes endStep end  *)
(* the open step span, which it follows with an increment of exactly one;  *)
(* a step-finish with no open step makes no backend call and changes no    *)
(* field.  The step index is always the number of step spans ended so far. *)
(***************************************************************************)
C21_StepIndex ==
  [][
    /\ input = <<>> => stepIndex = 0
    /\ stepIndex' >= stepIndex
    /\ stepIndex' = StepsEnded'
    /\ IF Dispatches({"step-finish"})
         THEN IF currentStepSpan # NoSpan
                THEN /\ stepIndex' = stepIndex + 1
                     /\ Last(NewCalls).op = "end" /\ Last(NewCalls).on = currentStepSpan
                     /\ currentStepSpan' = NoSpan
                ELSE NewCalls = <<>> /\ UNCHANGED trackerVars
         ELSE stepIndex' = stepIndex
  ]_vars

\* two steps were started and ended: the step index is 2
C21_Witness ==
  /\ input = <<StepStart, StepFinish, StepStart, StepFinish>>
  /\ stepIndex = 2 /\ StepsEnded = 2
  /\ currentStepSpan = NoSpan

\* the positions of the finish chunks that carried usage while step span st was
\* open, before the step-finish at position n
UsageSetFor(st, n) ==
  {m \in (CreatedAt(st) + 1)..(n - 1) :
     input[m].type = "finish" /\ Truthy(Get(input[m].payload, "usage"))}

\* the usage that the finish chunk at position m hands to setTokenUsage
UsageArgument(m) ==
  Project(Get(input[m].payload, "usage"), <<"inputTokens", "outputTokens", "totalTokens">>)

\* the update calls made while the chunk at position n was dispatched
UpdatesAt(n) == SelectSeq(calls, LAMBDA c : c.by = n /\ c.op = "update")

(***************************************************************************)
(* C22.  setTokenUsage is last-write-wins: when a step-finish ended a step *)
(* span and setTokenUsage was called one or more times while that step was *)
(* open, the step span received one update whose attributes are exactly    *)
(* the usage of the last call (with the finish reason), and the three      *)
(* usage attributes of the span are those of the last call, so a field     *)
(* only an earlier call carried is not applied.                            *)
(***************************************************************************)
C22_LastWriteWins ==
  \A n \in 1..Len(input) :
    (input[n].type = "step-finish" /\ StepEndedAt(n) # NoSpan
       /\ UsageSetFor(StepEndedAt(n), n) # {}) =>
      LET st   == StepEndedAt(n)
          last == CHOOSE m \in UsageSetFor(st, n) : \A k \in UsageSetFor(st, n) : k <= m
      IN /\ Len(UpdatesAt(n)) = 1
         /\ UpdatesAt(n)[1].on = st
         /\ UpdatesAt(n)[1].attributes = Put(UsageArgument(last), "finishReason", JUndefined)
         /\ \A k \in UsageKeys :
              Get(spans[st].attributes, k) = Get(Get(input[last].payload, "usage"), k)

\* usage with all three counts, then usage with totalTokens only, then the end
\* of the step: the span shows 42 total tokens and no input token count
C22_Witness ==
  /\ input = <<StepStart, Finish(FullUsage), Finish(PartialUsage), StepFinish>>
  /\ StepEndedAt(4) # NoSpan
  /\ Get(spans[StepEndedAt(4)].attributes, "totalTokens") = JNum(42)
  /\ Get(spans[StepEndedAt(4)].attributes, "inputTokens") = JUndefined

(***************************************************************************)
(* C23.  createEventSpan leaves the multi-part span in progress untouched: *)
(* whatever the state and whatever the backend answers, the open-chunk     *)
(* reference, hasActiveSpan() and the accumulator are after the call what  *)
(* they were before it, and the call makes no backend call on the open     *)
(* chunk span, whose record in the backend stays as it was.                *)
(***************************************************************************)
C23_EventLeavesOpenSpan ==
  [][ Invokes("createEventSpan") =>
        /\ currentChunkSpan' = currentChunkSpan
        /\ hasActiveSpan(World(0))' = hasActiveSpan(World(0))
        /\ getAccumulator(World(0))' = getAccumulator(World(0))
        /\ currentChunkSpan # NoSpan =>
             /\ spans'[currentChunkSpan] = spans[currentChunkSpan]
             /\ \A j \in 1..Len(NewCalls) : NewCalls[j].on # currentChunkSpan
    ]_vars

\* a span is open and holds text when createEventSpan creates an event span
C23_Witness ==
  /\ invoked = <<"startSpan", "appendToAccumulator", "createEventSpan">>
  /\ hasActiveSpan(World(0))
  /\ Get(accumulator, "text") = JStr(<<"b">>)
  /\ Last(calls).op = "createEventSpan" /\ Last(calls).result # NoSpan
  /\ Last(completedChunkSpans) = Last(calls).result

\* the createEventSpan calls the backend received in the step
NewEventCalls == SelectSeq(NewCalls, LAMBDA c : c.op = "createEventSpan")

(***************************************************************************)
(* C24 as stated.  Every createEventSpan call on an enabled tracker makes  *)
(* one createEventSpan backend call, with attributes {chunkType,           *)
(* sequenceNumber = the counter before the call} and the given output,     *)
(* appends the span to the completed list and increments the chunk         *)
(* sequence counter by exactly one.                                        *)
(***************************************************************************)
C24_EveryEventAsStated ==
  [][ (Invokes("createEventSpan") /\ isEnabled /\ BackendAnswered) =>
        /\ Len(NewEventCalls) = 1
        /\ NewEventCalls[1].attributes =
             JObj(<<"chunkType", "sequenceNumber">>, <<JLit("source"), JNum(chunkSequence)>>)
        /\ NewEventCalls[1].output = Source.payload
        /\ completedChunkSpans' = Append(completedChunkSpans, NewEventCalls[1].result)
        /\ chunkSequence' = chunkSequence + 1
    ]_vars

\* the value of the counter when createEventSpan asks the backend for the span:
\* startStep has reset it when the call had to create the step
CounterAtEvent == IF currentStepSpan # NoSpan THEN chunkSequence ELSE 0

(***************************************************************************)
(* C24 amended.  A createEventSpan call on an enabled tracker, the backend *)
(* not throwing, never makes a createChildSpan for a chunk span nor an     *)
(* end().  When a step is open or the call could create one, it makes one  *)
(* createEventSpan backend call on that step: a CHUNK span named from      *)
(* chunkType, with attributes {chunkType, sequenceNumber} and the given    *)
(* output, sequenceNumber being the counter at that moment (0 after an     *)
(* automatic startStep).  When the backend returns a handle the span is    *)
(* already ended, it is appended to the completed list and the counter     *)
(* becomes sequenceNumber + 1; when the backend returns undefined, or no   *)
(* step could be had, nothing is appended and the counter is not           *)
(* incremented.                                                            *)
(***************************************************************************)
C24_EventSpan ==
  [][ (Invokes("createEventSpan") /\ isEnabled /\ BackendAnswered) =>
        /\ \A j \in 1..Len(NewCalls) :
             /\ NewCalls[j].op # "end"
             /\ NewCalls[j].op = "createChildSpan" => NewCalls[j].type = "LLM_STEP"
        /\ IF currentStepSpan' # NoSpan
             THEN /\ Len(NewEventCalls) = 1
                  /\ Last(NewCalls) =
                       Call("createEventSpan", currentStepSpan', "LLM_CHUNK",
                            ChunkName("source"),
                            JObj(<<"chunkType", "sequenceNumber">>,
                                 <<JLit("source"), JNum(CounterAtEvent)>>),
                            Source.payload, Last(NewCalls).result, Len(invoked'))
                  /\ IF Last(NewCalls).result # NoSpan
                       THEN /\ completedChunkSpans' =
                                 Append(completedChunkSpans, Last(NewCalls).result)
                            /\ chunkSequence' = CounterAtEvent + 1
                            /\ spans'[Last(NewCalls).result].ended = 1
                            /\ spans'[Last(NewCalls).result].isEvent
                            /\ spans'[Last(NewCalls).result].output = Source.payload
                       ELSE /\ completedChunkSpans' = completedChunkSpans
                            /\ chunkSequence' = CounterAtEvent
             ELSE /\ NewEventCalls = <<>>
                  /\ completedChunkSpans' = completedChunkSpans
    ]_vars

\* two event spans in a row: the second takes sequence number 1, the counter is 2
C24_Witness ==
  /\ invoked = <<"createEventSpan", "createEventSpan">>
  /\ Len(completedChunkSpans) = 2
  /\ chunkSequence = 2
  /\ Last(calls).op = "createEventSpan"
  /\ Get(Last(calls).attributes, "sequenceNumber") = JNum(1)
  /\ spans[Last(calls).result].ended = 1

\* the tags the switch has no tracker call for: raw, start, and one it does not list
IgnoredTags == {c.type : c \in IgnoredChunks}

(***************************************************************************)
(* C25.  Silently ignored tags: when the transform dispatches a chunk      *)
(* tagged raw or start, or tagged with a tag the switch does not list, no  *)
(* field of the tracker changes (open step, open chunk span, accumulator,  *)
(* counters, pending usage, completed list), the backend receives no call  *)
(* and its spans are unchanged, no error is raised and the chunk is        *)
(* enqueued; with no tracker, a disabled one or an enabled one.            *)
(***************************************************************************)
C25_IgnoredTags ==
  [][ Dispatches(IgnoredTags) =>
        /\ UNCHANGED trackerVars
        /\ NewCalls = <<>>
        /\ ~errored'
        /\ output' = Append(output, Last(input'))
    ]_vars

\* a raw chunk in the middle of a tool call whose span is open
C25_Witness ==
  /\ hasTracker /\ isEnabled
  /\ Len(input) = 3
  /\ input[1] = ToolStart /\ input[2] = ToolDelta(<<"]">>) /\ input[3].type = "raw"
  /\ hasActiveSpan(World(0))
  /\ Get(accumulator, "toolInput") = JStr(<<"]">>)
  /\ Len(calls) = 2
  /\ output = input

\* the chunk spans the tracker opened, never ended and no longer refers to
Leaked == {h \in Open("LLM_CHUNK") : h # currentChunkSpan}

\* the initial data of the startSpan that asked for the chunk span of call c
InitialDataOf(c) == IF c.name = ChunkName("tool-call") THEN ToolPayload ELSE EmptyObject

(***************************************************************************)
(* C26.  startSpan while a chunk span is open overwrites the reference and *)
(* corrupts nothing.  When startSpan runs with a chunk span open and the   *)
(* backend does not throw, it makes no call on the open span, which stays  *)
(* as it was (not ended), nothing is appended to the completed list, the   *)
(* reference becomes what the backend returned for the new span and the    *)
(* accumulator becomes the new span's initial data, {} when none is given. *)
(* From then on, in every operation, the span left behind receives no      *)
(* backend call, is never ended, never becomes current again and never     *)
(* enters the completed list.                                              *)
(***************************************************************************)
C26_Overwrite ==
  [][
    /\ (Invokes("startSpan") /\ isEnabled /\ currentChunkSpan # NoSpan /\ BackendAnswered) =>
         /\ \A j \in 1..Len(NewCalls) :
              NewCalls[j].op # "end" /\ NewCalls[j].on # currentChunkSpan
         /\ spans'[currentChunkSpan] = spans[currentChunkSpan]
         /\ completedChunkSpans' = completedChunkSpans
         /\ currentChunkSpan' # currentChunkSpan
         /\ currentChunkSpan' = IF Last(NewCalls).type = "LLM_CHUNK"
                                  THEN Last(NewCalls).result ELSE NoSpan
         /\ Last(NewCalls).type = "LLM_CHUNK" => accumulator' = InitialDataOf(Last(NewCalls))
    /\ \A h \in Leaked :
         /\ \A j \in 1..Len(NewCalls) : NewCalls[j].on # h
         /\ spans'[h] = spans[h] /\ spans[h].ended = 0
         /\ currentChunkSpan' # h
         /\ \A i \in 1..Len(completedChunkSpans') : completedChunkSpans'[i] # h
  ]_vars

\* two startSpan in a row, then endCurrentSpan: the second span is ended and
\* completed, the first is still open and nowhere in the tracker
C26_Witness ==
  /\ invoked = <<"startSpan", "startSpan", "endCurrentSpan">>
  /\ Cardinality(Created("LLM_CHUNK")) = 2
  /\ Cardinality(Leaked) = 1
  /\ Len(completedChunkSpans) = 1
  /\ completedChunkSpans[1] \notin Leaked
  /\ spans[completedChunkSpans[1]].ended = 1
  /\ currentChunkSpan = NoSpan

(***************************************************************************)
(* C27.  startStep closes nothing.  On an enabled tracker with a           *)
(* generation span, the backend not throwing, startStep makes exactly one  *)
(* backend call: createChildSpan on the generation span for a STEP span    *)
(* named from the current step index, with the attribute stepIndex equal   *)
(* to it.  It calls end() on no span: a step or a chunk span that was open *)
(* is as it was.  The step reference becomes the backend's answer, the     *)
(* chunk sequence counter becomes 0 and the pending usage is cleared; the  *)
(* step index, the open-chunk reference, the accumulator and the completed *)
(* list are unchanged.                                                     *)
(***************************************************************************)
C27_StartStepClosesNothing ==
  [][ (Invokes("startStep") /\ isEnabled /\ modelSpan # NoSpan /\ BackendAnswered) =>
        /\ NewCalls = <<Call("createChildSpan", modelSpan, "LLM_STEP", StepName(stepIndex),
                             JObj(<<"stepIndex">>, <<JNum(stepIndex)>>), JUndefined,
                             Last(calls').result, Len(invoked'))>>
        /\ spans[modelSpan].type = "LLM_GENERATION"
        /\ \A h \in 1..Len(spans) : spans'[h] = spans[h]
        /\ currentStepSpan' = Last(calls').result
        /\ chunkSequence' = 0
        /\ pendingTokenUsage' = JUndefined
        /\ UNCHANGED <<stepIndex, currentChunkSpan, accumulator, completedChunkSpans>>
    ]_vars

\* startStep while a step and a chunk span holding text are open
C27_Witness ==
  /\ invoked = <<"startSpan", "appendToAccumulator", "startStep">>
  /\ Cardinality(Open("LLM_STEP")) = 2
  /\ currentStepSpan = Last(calls).result /\ currentStepSpan # NoSpan
  /\ hasActiveSpan(World(0)) /\ spans[currentChunkSpan].ended = 0
  /\ Get(accumulator, "text") = JStr(<<"b">>)
  /\ stepIndex = 0 /\ chunkSequence = 0

\* the argument the transform hands to endCurrentSpan for the chunk it dispatches:
\* chunk.object for object-result, acc.text for text-end
EndArgument ==
  IF Last(input').type = "object-result" THEN Last(input').object
  ELSE Get(getAccumulator(World(0)), "text")

(***************************************************************************)
(* C28.  endCurrentSpan ends the open chunk span with the output           *)
(* `output ?? accumulator`: the explicit output when one is passed, the    *)
(* whole accumulator when the output is undefined or null; it makes that   *)
(* one end() call, appends the span to the completed list, clears the      *)
(* open-chunk reference and the accumulator and increments the chunk       *)
(* sequence counter by one.  The tracker breaks it for null: it tests      *)
(* `output !== undefined`, so a null output ends the span with null and    *)
(* the accumulated data is dropped.                                        *)
(***************************************************************************)
C28_OutputOrAccumulator ==
  [][ (Dispatches({"object-result", "text-end"}) /\ currentChunkSpan # NoSpan) =>
        /\ NewCalls =
             <<Call("end", currentChunkSpan, "LLM_CHUNK", spans[currentChunkSpan].name,
                    EmptyObject,
                    IF EndArgument \in {JUndefined, JNull} THEN accumulator ELSE EndArgument,
                    NoSpan, Len(input'))>>
        /\ completedChunkSpans' = Append(completedChunkSpans, currentChunkSpan)
        /\ currentChunkSpan' = NoSpan
        /\ accumulator' = EmptyObject
        /\ chunkSequence' = chunkSequence + 1
    ]_vars

\* the backend calls of the step that threw, by their positions in NewCalls
ThrownCalls == {j \in 1..Len(NewCalls) : NewCalls[j].result = Thrown}

(***************************************************************************)
(* C29.  A throwing backend is not masked: when a backend call made while  *)
(* a chunk is dispatched (createChildSpan, createEventSpan, update or      *)
(* end) throws, it is the last backend call of that dispatch, the          *)
(* exception leaves transform() and the chunk is not enqueued; the         *)
(* assignments that follow the call in the tracker are not made (a chunk   *)
(* span whose end() threw stays current and is not appended to the         *)
(* completed list, a step whose update or end threw stays current).  A     *)
(* dispatch in which no backend call throws raises no error and enqueues   *)
(* the chunk.                                                              *)
(***************************************************************************)
C29_ThrowPropagates ==
  [][ Len(input') = Len(input) + 1 =>
        /\ errored' <=> ThrownCalls # {}
        /\ ThrownCalls # {} =>
             /\ ThrownCalls = {Len(NewCalls)}
             /\ output' = output
             /\ completedChunkSpans' = completedChunkSpans
             /\ Last(NewCalls).op \in {"update", "end"} =>
                  /\ currentStepSpan' = currentStepSpan
                  /\ currentChunkSpan' = currentChunkSpan
                  /\ stepIndex' = stepIndex /\ chunkSequence' = chunkSequence
        /\ ThrownCalls = {} => output' = Append(output, Last(input'))
    ]_vars

\* the update of the step span throws while step-finish is dispatched
C29_Witness ==
  /\ errored
  /\ Len(input) = 3 /\ input[3] = StepFinish
  /\ output = SubSeq(input, 1, 2)
  /\ Last(calls).op = "update" /\ Last(calls).result = Thrown
  /\ Last(calls).on = currentStepSpan

Tag(i) == input[i].type

\* every chunk-level tag lies between a step-start and its step-finish
InsideSteps ==
  \A i \in 1..Len(input) :
    Tag(i) \notin {"step-start", "step-finish"} =>
      \E s \in 1..(i - 1), f \in (i + 1)..Len(input) :
        /\ Tag(s) = "step-start" /\ Tag(f) = "step-finish"
        /\ \A k \in (s + 1)..(f - 1) : Tag(k) \notin {"step-start", "step-finish"}

\* an object chunk that no earlier object chunk precedes without an object-result
FirstObject(i) ==
  /\ Tag(i) = "object"
  /\ \A j \in 1..(i - 1) :
       Tag(j) = "object" => \E k \in (j + 1)..(i - 1) : Tag(k) = "object-result"

\* the chunk at position i is a multi-part start tag
StartAt(i) == Tag(i) \in BlockStartTags \ {"object"} \/ FirstObject(i)

\* every multi-part start tag is followed by its matching end tag before any
\* other start tag or step-finish
BlocksClosed ==
  \A i \in 1..Len(input) :
    StartAt(i) =>
      \E e \in (i + 1)..Len(input) :
        /\ Tag(e) = BlockEndTag(Tag(i))
        /\ \A k \in (i + 1)..(e - 1) : ~StartAt(k) /\ Tag(k) # "step-finish"

\* every step-start is followed by a step-finish before the next step-start
StepsClosed ==
  \A s \in 1..Len(input) :
    Tag(s) = "step-start" =>
      \E f \in (s + 1)..Len(input) :
        /\ Tag(f) = "step-finish"
        /\ \A k \in (s + 1)..(f - 1) : Tag(k) # "step-start"

\* no step and no chunk span is open in the tracker, and every span the tracker
\* created is ended: one end() for a span it opened, none for an event span
NothingOpen ==
  /\ currentStepSpan = NoSpan
  /\ currentChunkSpan = NoSpan
  /\ \A h \in 2..Len(spans) :
       /\ spans[h].ended = 1
       /\ Cardinality(EndCallsOn(h)) = IF spans[h].isEvent THEN 0 ELSE 1

(***************************************************************************)
(* C30 as stated.  When every chunk-level tag of the input lies between a  *)
(* step-start and its step-finish and every multi-part start tag is        *)
(* followed by its end tag before another start tag or step-finish, the    *)
(* tracker holds no open step and no open chunk span after the last chunk  *)
(* and every span it created has been ended exactly once.                  *)
(***************************************************************************)
C30_WellFormedAsStated == (InsideSteps /\ BlocksClosed) => NothingOpen

(***************************************************************************)
(* C30 amended.  When, in addition, every step-start of the input is       *)
(* followed by a step-finish before the next step-start, the tracker holds *)
(* no open step and no open chunk span after the last chunk and every span *)
(* it created has been ended exactly once, the backend returning a handle  *)
(* for every span.                                                         *)
(***************************************************************************)
C30_WellFormedClosed == (InsideSteps /\ BlocksClosed /\ StepsClosed) => NothingOpen

\* a step holding a text block with an event inside it, and a second step-finish
C30_Witness ==
  /\ input = <<StepStart, TextStart, Source, TextEnd, StepFinish, StepFinish>>
  /\ InsideSteps /\ BlocksClosed /\ StepsClosed
  /\ NothingOpen
  /\ Len(spans) = 4 /\ Len(completedChunkSpans) = 2

(***************************************************************************)
(* C31.  The completed-spans list is append-only and holds closed chunk    *)
(* spans only: every operation leaves the list it found as a prefix of the *)
(* list it leaves; the list never holds a handle twice; every entry is a   *)
(* chunk span of the backend that is closed, ended by endCurrentSpan or    *)
(* created as an event span; and the chunk span currently open is never in *)
(* the list.                                                               *)
(***************************************************************************)
C31_CompletedList ==
  [][
    /\ Len(completedChunkSpans') >= Len(completedChunkSpans)
    /\ SubSeq(completedChunkSpans', 1, Len(completedChunkSpans)) = completedChunkSpans
    /\ \A i, j \in 1..Len(completedChunkSpans') :
         completedChunkSpans'[i] = completedChunkSpans'[j] => i = j
    /\ \A i \in 1..Len(completedChunkSpans') :
         /\ completedChunkSpans'[i] \in 1..Len(spans')
         /\ spans'[completedChunkSpans'[i]].type = "LLM_CHUNK"
         /\ spans'[completedChunkSpans'[i]].ended >= 1
         /\ spans'[completedChunkSpans'[i]].isEvent
              \/ \E c \in 1..Len(calls') :
                   /\ calls'[c].op = "end" /\ calls'[c].on = completedChunkSpans'[i]
                   /\ calls'[c].result # Thrown
         /\ completedChunkSpans'[i] # currentChunkSpan'
  ]_vars

\* a span ended by endCurrentSpan, then an event span
C31_Witness ==
  /\ invoked = <<"startSpan", "endCurrentSpan", "createEventSpan">>
  /\ Len(completedChunkSpans) = 2
  /\ ~spans[completedChunkSpans[1]].isEvent
  /\ spans[completedChunkSpans[2]].isEvent
  /\ currentChunkSpan = NoSpan

\* the position in the call log of the createChildSpan of the most recent
\* startStep that returned, 0 when no step was ever started
LastStartStep ==
  LET S == {j \in 1..Len(calls) : /\ calls[j].op = "createChildSpan"
                                  /\ calls[j].type = "LLM_STEP"
                                  /\ calls[j].result # Thrown}
  IN IF S = {} THEN 0 ELSE CHOOSE j \in S : \A k \in S : k <= j

\* the position in the call log of the call after which span h was appended to
\* the completed list: its creation for an event span, the end() that returned
\* for a span endCurrentSpan ended
CompletedBy(h) ==
  CHOOSE j \in 1..Len(calls) :
    IF spans[h].isEvent
      THEN calls[j].op = "createEventSpan" /\ calls[j].result = h
      ELSE calls[j].op = "end" /\ calls[j].on = h /\ calls[j].result # Thrown

\* the entries appended to the completed list since the most recent startStep
AppendedSinceStartStep ==
  {i \in 1..Len(completedChunkSpans) : CompletedBy(completedChunkSpans[i]) > LastStartStep}

(***************************************************************************)
(* C32.  The chunk sequence counter of an enabled tracker is the number of *)
(* entries appended to the completed-spans list since the most recent      *)
(* startStep, explicit or automatic, and since construction when no step   *)
(* was ever started.                                                       *)
(***************************************************************************)
C32_CounterCountsCompleted ==
  isEnabled => chunkSequence = Cardinality(AppendedSinceStartStep)

\* one span completed in the first step, one in the second: the counter is 1
C32_Witness ==
  /\ invoked = <<"createEventSpan", "startStep", "createEventSpan">>
  /\ Len(completedChunkSpans) = 2
  /\ Cardinality(AppendedSinceStartStep) = 1
  /\ chunkSequence = 1

(***************************************************************************)
(* C33.  A chunk span is never ended after its parent step span: whenever  *)
(* end() has been called on a chunk span the tracker opened and on the     *)
(* step span under which it was created, the call on the chunk span came   *)
(* first.  The transform breaks it: step-finish ends the step span and     *)
(* leaves the open chunk span current, and the end tag that arrives later  *)
(* ends the chunk span under a step that is already ended.                 *)
(***************************************************************************)
C33_ChunkEndsBeforeStep ==
  \A h \in Created("LLM_CHUNK") :
    \A e \in EndCallsOn(h), s \in EndCallsOn(spans[h].parent) : e < s

(***************************************************************************)
(* C34.  Token usage never leaks between steps: every update a step span   *)
(* receives carries the usage of a setTokenUsage call made after that step *)
(* span was created and before the step-finish that makes the update; a    *)
(* step span during whose life no usage was stored receives no update and  *)
(* has no usage attribute, whatever usage was stored before it was opened  *)
(* or while no step was open.                                              *)
(***************************************************************************)
C34_NoUsageLeak ==
  /\ \A j \in 1..Len(calls) :
       calls[j].op = "update" =>
         /\ calls[j].type = "LLM_STEP"
         /\ \E m \in UsageSetFor(calls[j].on, calls[j].by) :
              calls[j].attributes = Put(UsageArgument(m), "finishReason", JUndefined)
  /\ \A n \in 1..Len(input) :
       (input[n].type = "step-finish" /\ StepEndedAt(n) # NoSpan
          /\ UsageSetFor(StepEndedAt(n), n) = {}) =>
         /\ UpdatesAt(n) = <<>>
         /\ \A k \in UsageKeys : ~HasKey(spans[StepEndedAt(n)].attributes, k)

\* usage arrives in the first step, which is never finished; the second step
\* is opened and finished and gets none of it
C34_Witness ==
  /\ input = <<StepStart, Finish(FullUsage), StepStart, StepFinish>>
  /\ StepEndedAt(4) # NoSpan
  /\ CreatedAt(StepEndedAt(4)) = 3
  /\ UpdatesAt(4) = <<>>
  /\ ~HasKey(spans[StepEndedAt(4)].attributes, "totalTokens")

(***************************************************************************)
(* C35.  Nothing after end(): once end() has been called on a span handle  *)
(* the backend receives no further call on that handle: no update, no      *)
(* second end(), no createChildSpan or createEventSpan under it; the       *)
(* update of a step span comes before its end().  The tracker breaks it    *)
(* when end() throws: endStep and endCurrentSpan keep the reference, so a  *)
(* later endStep updates and ends the same step span again and a later     *)
(* startSpan or createEventSpan creates a child under it.                  *)
(***************************************************************************)
C35_NothingAfterEnd ==
  \A e \in 1..Len(calls) :
    calls[e].op = "end" =>
      \A j \in (e + 1)..Len(calls) : calls[j].on # calls[e].on

\* the step spans the tracker created, in creation order
StepSpans == SelectSeq([h \in 1..Len(spans) |-> h], LAMBDA h : spans[h].type = "LLM_STEP")

(***************************************************************************)
(* C36.  Step indices are distinct: the step spans a tracker created carry *)
(* the stepIndex attributes 0, 1, 2, ... in creation order, for any        *)
(* sequence of step-start, step-finish and chunk-level chunks.  The        *)
(* tracker breaks it: the step index moves only when endStep ends a step,  *)
(* so a step-start that arrives while a step is open creates a second     *)
(* step span with the same stepIndex.                                      *)
(***************************************************************************)
C36_DistinctStepIndex ==
  \A i \in 1..Len(StepSpans) :
    Get(spans[StepSpans[i]].attributes, "stepIndex") = JNum(i - 1)

(***************************************************************************)
(* C37.  A chunk span is closed only by the end tag of its own kind: the   *)
(* chunk whose dispatch ended a span opened by text-start is a text-end,   *)
(* and an object-result ends only a span opened by an object chunk.  The   *)
(* transform breaks it: every end tag calls endCurrentSpan, which ends     *)
(* whatever chunk span is open, so an object-result that arrives while a   *)
(* text span is open ends the text span with the object as its output.     *)
(***************************************************************************)
C37_OwnEndTag ==
  \A h \in Created("LLM_CHUNK") :
    EndCallsOn(h) # {} =>
      input[EndedAt(h)].type = BlockEndTag(input[CreatedAt(h)].type)

\* span h was opened by a text-start or reasoning-start and ended by a text-end
\* or reasoning-end
TextSpan(h) ==
  /\ h \in Created("LLM_CHUNK") /\ EndCallsOn(h) # {}
  /\ input[CreatedAt(h)].type \in {"text-start", "reasoning-start"}
  /\ input[EndedAt(h)].type \in {"text-end", "reasoning-end"}

(***************************************************************************)
(* C38.  The output of a text or reasoning span is always a string: a span *)
(* opened by text-start or reasoning-start and ended by text-end or        *)
(* reasoning-end has a string as its output, the empty string when no      *)
(* delta arrived between the two.  The transform breaks it: with no delta  *)
(* the accumulator has no text field, the end tag passes undefined to      *)
(* endCurrentSpan, and the span is ended with the accumulator, the empty   *)
(* object, as its output.                                                  *)
(***************************************************************************)
C38_TextOutputIsString ==
  \A h \in 1..Len(spans) :
    TextSpan(h) =>
      /\ spans[h].output.kind = "string"
      /\ DeltasOf(h) = {} => spans[h].output = JStr(<<>>)

====
